---- MODULE Spec2Model ----
(***************************************************************************)
(* The reconciliation pipeline of the repository: the staging tables       *)
(* import_br / import_nas / import_seen_sc / import_watchlist_sc, the      *)
(* match drivers (tmdb_match_*.py), the apply drivers (tmdb_apply_*.py),   *)
(* the manual resolver (resolve_seen_sc.py) and the box-set replacer       *)
(* (replace_boxset_with_films.py), over one PostgreSQL database.  Every    *)
(* script opens one connection with autocommit off: its writes stay in an  *)
(* open transaction until conn.commit(), and conn.rollback() or the death  *)
(* of the process discards them.                                           *)
(***************************************************************************)
EXTENDS Integers, Sequences, FiniteSets, TLC

\* ---- bounds of the model ----
\* answers the catalog has ready for the requests of one call
NumAnswers == 4
\* longest title (in characters) given to the scoring function
MaxTitleLen == 2
\* longest result list given to the ranking
MaxResults == 11
NumRecs == 2        \* row slots of the staging tables
MaxTmdb == 2        \* catalog ids 1..MaxTmdb
NumProcs == 2       \* script processes that may run at the same time
MaxNoteLen == 2     \* the resolver extends no note beyond this length
MaxLimit == 2       \* --limit ranges over 1..MaxLimit
MaxCands == 2       \* candidates in one search response
MaxEvents == 2      \* watch_event rows counted per staging row

Recs == 1..NumRecs
Tmdb == 1..MaxTmdb
Procs == 1..NumProcs

\* tmdb_id IS NULL (the BR filter treats 0 like NULL)
NoTmdb == 0
NoRec == 0

Sources == {"BR", "NAS", "SEEN", "WL"}
\* the apply drivers that call ensure_source and write film_source
LinkedSources == {"BR", "NAS"}

\* default of --statuses in the manual resolver
DefaultStatuses == {"ERROR", "AMBIGUOUS", "NOT_FOUND"}

\* import_br.py / import_nas.py insert no match_status (the column default
\* applies); the BR match driver reads rows that are NOT_FOUND or ERROR
\* with no tmdb_id, so staged BR rows are taken in any of these three.
BRImportStatuses == {"PENDING", "NOT_FOUND", "ERROR"}

AbsentRow == [src |-> "NONE", status |-> "NONE", tmdb |-> NoTmdb, note |-> <<>>]
DeletedRow == [src |-> "GONE", status |-> "NONE", tmdb |-> NoTmdb, note |-> <<>>]
ImportedRow(s, st) == [src |-> s, status |-> st, tmdb |-> NoTmdb, note |-> <<>>]

ImportRows ==
    {ImportedRow("BR", st) : st \in BRImportStatuses}
        \cup {ImportedRow(s, "PENDING") : s \in Sources \ {"BR"}}

Present(r) == r.src \in Sources

\* ---- helpers on sequences ----
SeqHas(sq, x) == \E i \in 1..Len(sq) : sq[i] = x
Last(sq) == sq[Len(sq)]
FirstN(sq, n) == IF Len(sq) <= n THEN sq ELSE SubSeq(sq, 1, n)
IsPrefix(a, b) == Len(a) <= Len(b) /\ SubSeq(b, 1, Len(a)) = a

Min(S) == CHOOSE x \in S : \A y \in S : x <= y

RECURSIVE SortedSeq(_)
\* ORDER BY id: the ids of S in ascending order
SortedSeq(S) == IF S = {} THEN <<>> ELSE <<Min(S)>> \o SortedSeq(S \ {Min(S)})

\* match_note LIKE '%applied%'
HasApplied(note) == SeqHas(note, "applied")

\* COALESCE(match_note,'') || ' | tag'
AppendNote(note, tag) == Append(note, tag)

VARIABLES
    rec,        \* committed rows of the staging tables: slot -> row
    film,       \* committed film rows per tmdb_id (a count)
    source,     \* committed source rows per code (a count)
    filmSource, \* committed film_source rows per <<tmdb_id, code, live>>
    physCopy,   \* committed physical_copy rows per film
    nasAsset,   \* committed nas_asset row of each staging row's path: film or 0
    userFilm,   \* committed user_film status per film
    watchEvent, \* committed watch_event rows inserted for each staging row
    proc,       \* the script processes
    active,     \* the processes that exist in this run of the system
    fk,         \* the schema enforces film_source.source_id -> source
    calc        \* one evaluation of a helper function (tmdb_get, scoring,
                \* ranking, a match decision) followed step by step

canon == <<film, source, filmSource, physCopy, nasAsset, userFilm, watchEvent>>
vars == <<rec, film, source, filmSource, physCopy, nasAsset, userFilm, watchEvent,
          proc, active, fk, calc>>

\* no helper evaluation is followed
NoCalc == [kind |-> "none"]

\* A process slot with no script running; exit is how its last script
\* ended: "ok" (ran to its end) or "exc" (ended by an uncaught exception).
Ended(ex) == [kind |-> "idle", src |-> "NONE", todo |-> <<>>, cur |-> NoRec,
              curT |-> NoTmdb, pc |-> "loop", srcLock |-> "none",
              srcOk |-> FALSE, exit |-> ex]
Idle == Ended("ok")

\* A script that has just read its page
Started(k, s, page, lock) ==
    [kind |-> k, src |-> s, todo |-> page, cur |-> NoRec, curT |-> NoTmdb,
     pc |-> "loop", srcLock |-> lock, srcOk |-> lock # "none", exit |-> "ok"]

\* ---- the catalog's answers, as the drivers read them ----
\* One search result: its id, its heuristic score, and how the directors of
\* its credits relate to the row's director hint: "none" (no director
\* listed), "other" (directors, none overlapping a hint), "hit" (overlap).
Scores == {2, 5}
DirRels == {"none", "other", "hit"}
Cand == [id : Tmdb, score : Scores, dir : DirRels]

DistinctIds(cs) == \A i, j \in 1..Len(cs) : i # j => cs[i].id # cs[j].id

\* search results: at most MaxCands candidates with distinct ids
Responses ==
    UNION {{cs \in [1..n -> Cand] : DistinctIds(cs)} : n \in 0..MaxCands}

RECURSIVE InsertDesc_BeforeTies(_, _)
\* an insertion that would put c before the elements of equal score
InsertDesc_BeforeTies(sorted, c) ==
    IF sorted = <<>> THEN <<c>>
    ELSE IF Head(sorted).score > c.score
         THEN <<Head(sorted)>> \o InsertDesc_BeforeTies(Tail(sorted), c)
         ELSE <<c>> \o sorted

RECURSIVE InsertDesc(_, _)
\* insert c after every element whose score is >= c.score
InsertDesc(sorted, c) ==
    IF sorted = <<>> THEN <<c>>
    ELSE IF Head(sorted).score >= c.score
         THEN <<Head(sorted)>> \o InsertDesc(Tail(sorted), c)
         ELSE <<c>> \o sorted

RECURSIVE SortDesc(_)
\* list.sort(key=score, reverse=True): descending, stable
SortDesc(cs) ==
    IF cs = <<>> THEN <<>>
    ELSE InsertDesc(SortDesc(SubSeq(cs, 1, Len(cs) - 1)), cs[Len(cs)])

\* any(hint in d or d in hint for d in dirs): with an empty hint the test
\* '' in d holds for every director name
DirOverlap(hint, c) == IF hint THEN c.dir = "hit" ELSE c.dir # "none"

\* index of the first candidate of cs whose directors overlap, or 0
FirstOverlap(hint, cs) ==
    IF \E i \in 1..Len(cs) : DirOverlap(hint, cs[i])
    THEN Min({i \in 1..Len(cs) : DirOverlap(hint, cs[i])})
    ELSE 0

\* outcome of one record: the status written, whether tmdb_id is written
\* and to what, and the note; status "EXC" is an exception raised before
\* any write
Outcome(st, t, wr, nt) == [status |-> st, tmdb |-> t, setTmdb |-> wr, note |-> nt]
Raised == Outcome("EXC", NoTmdb, FALSE, <<>>)

\* tmdb_match_br.py, body of the try block
MatchBR(hint, cands, searchFail, creditsFail) ==
    IF searchFail THEN Raised
    ELSE IF cands = <<>> THEN Outcome("NOT_FOUND", NoTmdb, FALSE, <<"noresult">>)
    ELSE
      LET scored == SortDesc(FirstN(cands, 10))
          top == FirstN(scored, 3)
          ambiguous == Len(top) >= 2 /\ top[1].score = top[2].score
          k == FirstOverlap(hint, top)
      IN  IF ambiguous /\ hint
          THEN IF creditsFail THEN Raised
               ELSE IF k # 0 THEN Outcome("MATCHED", top[k].id, TRUE, <<"match">>)
               ELSE Outcome("AMBIGUOUS", scored[1].id, TRUE, <<"ambiguous">>)
          ELSE IF ambiguous
               THEN Outcome("AMBIGUOUS", scored[1].id, TRUE, <<"ambiguous">>)
               ELSE Outcome("MATCHED", scored[1].id, TRUE, <<"match">>)

\* index of the first candidate with the best director score (stable sort
\* of (score, id, dirs) by score, descending)
NasBest(cs) ==
    IF \E i \in 1..Len(cs) : cs[i].dir = "hit"
    THEN Min({i \in 1..Len(cs) : cs[i].dir = "hit"})
    ELSE 1

\* a NAS decision that would lack the single-candidate shortcut
MatchNAS_NoShortcut(hint, cands, searchFail, creditsFail) ==
    IF searchFail THEN Raised
    ELSE IF cands = <<>> THEN Outcome("NOT_FOUND", NoTmdb, FALSE, <<"noresult">>)
    ELSE
      LET candidates == FirstN(cands, 5)
          b == NasBest(candidates)
      IN  IF hint /\ creditsFail THEN Raised
          ELSE IF hint /\ candidates[b].dir = "hit"
               THEN Outcome("MATCHED", candidates[b].id, TRUE, <<"match">>)
          ELSE Outcome("AMBIGUOUS", NoTmdb, FALSE, <<"candidates">>)

\* tmdb_match_nas.py, body of the try block
MatchNAS(hint, cands, searchFail, creditsFail) ==
    IF searchFail THEN Raised
    ELSE IF cands = <<>> THEN Outcome("NOT_FOUND", NoTmdb, FALSE, <<"noresult">>)
    ELSE
      LET candidates == FirstN(cands, 5)
          b == NasBest(candidates)
      IN  IF Len(candidates) = 1
          THEN Outcome("MATCHED", candidates[1].id, TRUE, <<"match">>)
          ELSE IF hint /\ creditsFail THEN Raised
          ELSE IF hint /\ candidates[b].dir = "hit"
               THEN Outcome("MATCHED", candidates[b].id, TRUE, <<"match">>)
          ELSE Outcome("AMBIGUOUS", NoTmdb, FALSE, <<"candidates">>)

\* tmdb_match_seen_sc.py, body of the try block
MatchSEEN(hint, cands, searchFail, creditsFail) ==
    IF searchFail THEN Raised
    ELSE IF cands = <<>> THEN Outcome("NOT_FOUND", NoTmdb, FALSE, <<"noresult">>)
    ELSE
      LET scored == SortDesc(FirstN(cands, 10))
          ambiguous == Len(scored) > 1 /\ scored[2].score = scored[1].score
          top == FirstN(scored, 3)
          k == FirstOverlap(hint, top)
      IN  IF ambiguous
          THEN IF creditsFail THEN Raised
               ELSE IF k # 0 THEN Outcome("MATCHED", top[k].id, TRUE, <<"match">>)
               ELSE Outcome("AMBIGUOUS", scored[1].id, TRUE, <<"ambiguous">>)
          ELSE Outcome("MATCHED", scored[1].id, TRUE, <<"match">>)

RECURSIVE WLPick(_, _, _)
\* the loop `for cand in results[:10]` of the watchlist matcher from its
\* k-th turn on: the index of the best candidate (0: none yet), replaced
\* only by a strictly greater score
WLPick(cs, k, best) ==
    IF k > Len(cs) THEN best
    ELSE WLPick(cs, k + 1, IF best = 0 \/ cs[k].score > cs[best].score THEN k ELSE best)

\* the best candidate of each scoring driver among the results
RankBest(d, cands) ==
    LET first10 == FirstN(cands, 10)
    IN  IF d = "WL" THEN first10[WLPick(first10, 1, 0)]
        ELSE SortDesc(first10)[1]

\* tmdb_match_watchlist_sc.py, body of the try block; cands is the result
\* list kept after the two search passes.  A failing credits call is
\* swallowed and counts as an empty director list.
MatchWL(hint, cands, searchFail, creditsFail) ==
    IF searchFail THEN Raised
    ELSE IF cands = <<>> THEN Outcome("NOT_FOUND", NoTmdb, FALSE, <<"noresult">>)
    ELSE
      LET first10 == FirstN(cands, 10)
          best == RankBest("WL", cands)
          top5 == FirstN(cands, 5)
          k == IF creditsFail THEN 0 ELSE FirstOverlap(hint, top5)
          ambiguous == Len(cands) > 1
      IN  IF ambiguous /\ hint /\ k # 0
          THEN Outcome("MATCHED", top5[k].id, TRUE, <<"match">>)
          ELSE IF ambiguous
               THEN Outcome("AMBIGUOUS", best.id, TRUE, <<"ambiguous">>)
               ELSE Outcome("MATCHED", best.id, TRUE, <<"match">>)

MatchOutcome(s, hint, cands, searchFail, creditsFail) ==
    CASE s = "BR" -> MatchBR(hint, cands, searchFail, creditsFail)
      [] s = "NAS" -> MatchNAS(hint, cands, searchFail, creditsFail)
      [] s = "SEEN" -> MatchSEEN(hint, cands, searchFail, creditsFail)
      [] OTHER -> MatchWL(hint, cands, searchFail, creditsFail)

\* the two best scores of the scored results are equal
TiedTop(cands) ==
    LET scored == SortDesc(FirstN(cands, 10))
    IN  Len(scored) >= 2 /\ scored[1].score = scored[2].score

\* the driver asks the catalog for the credits of at least one candidate
\* (the search succeeded and returned cands)
CreditsCalled(s, hint, cands) ==
    CASE s = "BR" -> TiedTop(cands) /\ hint
      [] s = "NAS" -> Len(FirstN(cands, 5)) >= 2 /\ hint
      [] s = "SEEN" -> TiedTop(cands)
      [] OTHER -> Len(cands) > 1 /\ hint

\* what a match driver can decide for one row: over every director hint
\* (present or empty), search response and failure of the catalog calls
MatchOutcomes ==
    [s \in Sources |->
        {MatchOutcome(s, hint, cands, sf, cf) :
            hint \in BOOLEAN, cands \in Responses, sf \in BOOLEAN, cf \in BOOLEAN}]

\* ---- selection filters of the drivers ----
\* a match filter that would take NOT_FOUND rows again in every source
MatchSelect_AlsoNotFound(r) ==
    IF r.src = "BR"
    THEN r.status \in {"NOT_FOUND", "ERROR"} /\ r.tmdb = NoTmdb
    ELSE Present(r) /\ r.status \in {"PENDING", "NOT_FOUND"}

\* WHERE clause of each match driver
MatchSelect(r) ==
    IF r.src = "BR"
    THEN r.status \in {"NOT_FOUND", "ERROR"} /\ r.tmdb = NoTmdb
    ELSE Present(r) /\ r.status = "PENDING"

\* the apply filter without its test of the applied marker
ApplySelect_NoMarker(r) ==
    Present(r) /\ r.status = "MATCHED" /\ r.tmdb # NoTmdb

\* WHERE clause of each apply driver
ApplySelect(r) ==
    Present(r) /\ r.status = "MATCHED" /\ r.tmdb # NoTmdb /\ ~HasApplied(r.note)

\* a resolver filter that would take seen rows of every status
ResolveSelect_AnyStatus(r) == r.src = "SEEN"

\* WHERE clause of the manual resolver
ResolveSelect(r) == r.src = "SEEN" /\ r.status \in DefaultStatuses

\* ORDER BY id LIMIT lim over the rows whose ids are in ids
Page(lim, ids) == FirstN(SortedSeq(ids), lim)

\* the page read by the match driver of source s
MatchPage(s, lim) == Page(lim, {i \in Recs : rec[i].src = s /\ MatchSelect(rec[i])})

\* an apply page that would take the rows with a tmdb_id in any status
ApplyPage_AnyStatus(s, lim) ==
    Page(lim, {i \in Recs : rec[i].src = s /\ rec[i].tmdb # NoTmdb})

\* the page read by the apply driver of source s
ApplyPage(s, lim) == Page(lim, {i \in Recs : rec[i].src = s /\ ApplySelect(rec[i])})

\* the page read by the manual resolver
ResolvePage(lim) == Page(lim, {i \in Recs : ResolveSelect(rec[i])})

\* the rows of a page as the script keeps them: id and the tmdb_id read
Items(ids, withTmdb) ==
    [k \in 1..Len(ids) |->
        [id |-> ids[k], tmdb |-> IF withTmdb THEN rec[ids[k]].tmdb ELSE NoTmdb]]

\* UPDATE ... WHERE id = i: no row, no effect
UpdateRow(i, new) == IF Present(rec[i]) THEN [rec EXCEPT ![i] = new] ELSE rec

\* ---- initial state: the staging tables as the import scripts fill them ----
InitDb ==
    /\ rec \in [Recs -> ImportRows \cup {AbsentRow}]
    /\ \A i \in Recs : Present(rec[i]) => \A j \in 1..(i - 1) : Present(rec[j])
    /\ film = [t \in Tmdb |-> 0]
    /\ source = [s \in LinkedSources |-> 0]
    /\ filmSource = [k \in Tmdb \X LinkedSources \X BOOLEAN |-> 0]
    /\ physCopy = [t \in Tmdb |-> 0]
    /\ nasAsset = [i \in Recs |-> NoTmdb]
    /\ userFilm = [t \in Tmdb |-> "none"]
    /\ watchEvent = [i \in Recs |-> 0]
    /\ proc = [p \in Procs |-> Idle]
    /\ fk \in BOOLEAN
    /\ calc = NoCalc

\* one script at a time
Init == InitDb /\ active = {1}

\* ---- match drivers: tmdb_match_{br,nas,seen_sc,watchlist_sc}.py ----
\* A run that finds no row to process and holds no open write changes
\* nothing; such runs are left out (the Start actions ask for a row).
\* the SELECT of a match driver
StartMatch(p, s, lim) ==
    /\ proc[p].kind = "idle"
    /\ MatchPage(s, lim) # <<>>
    /\ proc' = [proc EXCEPT ![p] =
                  Started("match", s, Items(MatchPage(s, lim), FALSE), "none")]
    /\ UNCHANGED <<rec, canon, active, fk, calc>>

\* top of the loop body: the next row of the page, search on its way
MatchBegin(p) ==
    /\ proc[p].kind = "match" /\ proc[p].pc = "loop" /\ proc[p].todo # <<>>
    /\ proc' = [proc EXCEPT ![p].cur = Head(proc[p].todo).id,
                            ![p].todo = Tail(proc[p].todo),
                            ![p].pc = "work"]
    /\ UNCHANGED <<rec, canon, active, fk, calc>>

\* an error handler that would write a status of its own
ErrorRow_Failed(old) == [old EXCEPT !.status = "FAILED", !.note = <<"error">>]

\* the except handler's UPDATE
ErrorRow(old) == [old EXCEPT !.status = "ERROR", !.note = <<"error">>]

\* the row written for an outcome: the UPDATE of the branch taken, or the
\* except handler's UPDATE
MatchWrite(old, o) ==
    IF o.status = "EXC"
    THEN ErrorRow(old)
    ELSE [old EXCEPT !.status = o.status,
                     !.tmdb = IF o.setTmdb THEN o.tmdb ELSE old.tmdb,
                     !.note = o.note]

\* rest of the loop body: score, disambiguate, UPDATE, commit; or the
\* except handler: rollback, UPDATE to ERROR, commit
MatchFinish(p) ==
    /\ proc[p].kind = "match" /\ proc[p].pc = "work"
    /\ \E o \in MatchOutcomes[proc[p].src] :
         rec' = UpdateRow(proc[p].cur, MatchWrite(rec[proc[p].cur], o))
    /\ proc' = [proc EXCEPT ![p].cur = NoRec, ![p].pc = "loop"]
    /\ UNCHANGED <<canon, active, fk, calc>>

\* end of the with-block of a driver: commit of whatever is still open
EndRun(p) ==
    /\ proc[p].kind \in {"match", "apply", "resolve"}
    /\ proc[p].pc = "loop" /\ proc[p].todo = <<>>
    /\ source' = IF proc[p].srcLock = "new"
                 THEN [source EXCEPT ![proc[p].src] = 1] ELSE source
    /\ proc' = [proc EXCEPT ![p] = Idle]
    /\ UNCHANGED <<rec, film, filmSource, physCopy, nasAsset, userFilm, watchEvent,
                   active, fk, calc>>

\* the process is killed or loses its connection: the open transaction is lost
Crash(p) ==
    /\ proc[p].kind # "idle"
    /\ proc' = [proc EXCEPT ![p] = Idle]
    /\ UNCHANGED <<rec, canon, active, fk, calc>>

\* ---- apply drivers: tmdb_apply_{br,nas,seen_sc,watchlist_sc}.py ----
\* INSERT ... ON CONFLICT (key) DO UPDATE / DO NOTHING: rows under one key
Upsert(n) == IF n = 0 THEN 1 ELSE n

\* another open transaction holds the source row of code s (inserted or
\* updated by its ensure_source and not yet committed)
SourceLocked(p, s) ==
    \E q \in Procs \ {p} : proc[q].src = s /\ proc[q].srcLock # "none"

\* another open transaction holds the film row of tmdb_id t
FilmLocked(p, t) ==
    \E q \in Procs \ {p} :
        proc[q].kind = "apply" /\ proc[q].pc = "film" /\ proc[q].curT = t

\* ensure_source (BR and NAS only) and the SELECT of an apply driver
StartApply(p, s, lim) ==
    /\ proc[p].kind = "idle"
    /\ s \in LinkedSources => ~SourceLocked(p, s)
    /\ s \notin LinkedSources => ApplyPage(s, lim) # <<>>
    /\ LET lock == IF s \notin LinkedSources THEN "none"
                   ELSE IF source[s] = 0 THEN "new" ELSE "upd"
       IN  proc' = [proc EXCEPT ![p] =
                      [Started("apply", s, Items(ApplyPage(s, lim), TRUE), lock)
                          EXCEPT !.srcOk = s \in LinkedSources]]
    /\ UNCHANGED <<rec, canon, active, fk, calc>>

\* top of the loop body: details fetched, film (and genres) upserted in the
\* open transaction
ApplyBegin(p) ==
    /\ proc[p].kind = "apply" /\ proc[p].pc = "loop" /\ proc[p].todo # <<>>
    /\ ~FilmLocked(p, Head(proc[p].todo).tmdb)
    /\ proc' = [proc EXCEPT ![p].cur = Head(proc[p].todo).id,
                            ![p].curT = Head(proc[p].todo).tmdb,
                            ![p].todo = Tail(proc[p].todo),
                            ![p].pc = "film"]
    /\ UNCHANGED <<rec, canon, active, fk, calc>>

\* a mark step that would set APPLIED for every source
MarkApplied_AllSources(old, s) ==
    [old EXCEPT !.status = "APPLIED", !.note = AppendNote(old.note, "applied")]

\* the UPDATE that marks a row applied
MarkApplied(old, s) ==
    IF s \in LinkedSources
    THEN [old EXCEPT !.status = "APPLIED", !.note = AppendNote(old.note, "applied")]
    ELSE [old EXCEPT !.note = AppendNote(old.note, "applied")]

\* a watchlist upsert that would overwrite SEEN
WantUnlessSeen_Always(st) == "WANT"

\* user_film status written by the watchlist driver: SEEN is kept
WantUnlessSeen(st) == IF st = "SEEN" THEN "SEEN" ELSE "WANT"

\* rest of the loop body: source link, source-specific rows, applied mark,
\* commit (which also commits the film row and a source row still open)
ApplyFinish(p) ==
    /\ proc[p].kind = "apply" /\ proc[p].pc = "film"
    /\ LET s == proc[p].src
           i == proc[p].cur
           t == proc[p].curT
           live == proc[p].srcOk
       IN  /\ ~(s \in LinkedSources /\ ~live /\ fk)
           /\ film' = [film EXCEPT ![t] = Upsert(film[t])]
           /\ filmSource' = IF s \in LinkedSources
                            THEN [filmSource EXCEPT ![<<t, s, live>>] = Upsert(@)]
                            ELSE filmSource
           /\ source' = IF proc[p].srcLock = "new"
                        THEN [source EXCEPT ![s] = 1] ELSE source
           /\ physCopy' = IF s = "BR" THEN [physCopy EXCEPT ![t] = Upsert(@)]
                          ELSE physCopy
           /\ nasAsset' = IF s = "NAS" THEN [nasAsset EXCEPT ![i] = t] ELSE nasAsset
           /\ userFilm' = CASE s = "SEEN" -> [userFilm EXCEPT ![t] = "SEEN"]
                            [] s = "WL" -> [userFilm EXCEPT ![t] = WantUnlessSeen(@)]
                            [] OTHER -> userFilm
           /\ \E watched \in BOOLEAN :
                /\ (s = "SEEN" /\ watched) => watchEvent[i] < MaxEvents
                /\ watchEvent' = IF s = "SEEN" /\ watched
                                 THEN [watchEvent EXCEPT ![i] = @ + 1] ELSE watchEvent
           /\ rec' = UpdateRow(i, MarkApplied(rec[i], s))
    /\ proc' = [proc EXCEPT ![p].cur = NoRec, ![p].curT = NoTmdb,
                            ![p].pc = "loop", ![p].srcLock = "none"]
    /\ UNCHANGED <<active, fk, calc>>

\* the process after conn.rollback(): a source row inserted by ensure_source
\* in the transaction is gone, and the source_id the script holds names no row
AfterRollback(pr) ==
    [pr EXCEPT !.cur = NoRec, !.curT = NoTmdb, !.pc = "loop",
               !.srcLock = "none",
               !.srcOk = pr.srcOk /\ pr.srcLock # "new"]

\* a rollback that would keep the film upsert of the open transaction
FilmAfterRollback_Kept(t) == [film EXCEPT ![t] = Upsert(@)]

\* the film table after conn.rollback(): the film upsert of the open
\* transaction (tmdb_id t) is discarded
FilmAfterRollback(t) == film

\* except handler of the loop body: rollback, UPDATE to ERROR, commit.  The
\* exception comes from the details call (nothing written yet) or from a
\* statement after the film upsert.
ApplyFail(p) ==
    /\ proc[p].kind = "apply"
    /\ \/ /\ proc[p].pc = "loop" /\ proc[p].todo # <<>>
          /\ rec' = UpdateRow(Head(proc[p].todo).id, ErrorRow(rec[Head(proc[p].todo).id]))
          /\ proc' = [proc EXCEPT ![p] =
                        [AfterRollback(proc[p]) EXCEPT !.todo = Tail(proc[p].todo)]]
          /\ film' = film
       \/ /\ proc[p].pc = "film"
          /\ rec' = UpdateRow(proc[p].cur, ErrorRow(rec[proc[p].cur]))
          /\ proc' = [proc EXCEPT ![p] = AfterRollback(proc[p])]
          /\ film' = FilmAfterRollback(proc[p].curT)
    /\ UNCHANGED <<source, filmSource, physCopy, nasAsset, userFilm, watchEvent,
                   active, fk, calc>>

\* ---- manual resolver: resolve_seen_sc.py ----
StartResolve(p, lim) ==
    /\ proc[p].kind = "idle"
    /\ ResolvePage(lim) # <<>>
    /\ proc' = [proc EXCEPT ![p] =
                  Started("resolve", "SEEN", Items(ResolvePage(lim), FALSE), "none")]
    /\ UNCHANGED <<rec, canon, active, fk, calc>>

\* top of the loop body: search_candidates returned, the prompt is shown
ResolveBegin(p) ==
    /\ proc[p].kind = "resolve" /\ proc[p].pc = "loop" /\ proc[p].todo # <<>>
    /\ proc' = [proc EXCEPT ![p].cur = Head(proc[p].todo).id,
                            ![p].todo = Tail(proc[p].todo),
                            ![p].pc = "prompt"]
    /\ UNCHANGED <<rec, canon, active, fk, calc>>

\* search_candidates raises (no try around it): the exception leaves main,
\* the with-block rolls back and the script ends
ResolveRaise(p) ==
    /\ proc[p].kind = "resolve" /\ proc[p].pc = "loop" /\ proc[p].todo # <<>>
    /\ proc' = [proc EXCEPT ![p] = Ended("exc")]
    /\ UNCHANGED <<rec, canon, active, fk, calc>>

\* what the operator types: skip (also empty or unusable input), 'n', or
\* an id (picked from the list or given as id:<n>; 0 is no id)
Choices == [kind : {"skip", "n"}, id : {NoTmdb}] \cup [kind : {"id"}, id : 0..MaxTmdb]

\* a resolver write that would set MATCHED without storing the id
ResolveWrite_NoId(old, ch) ==
    CASE ch.kind = "n" ->
           [old EXCEPT !.status = "NOT_FOUND",
                       !.note = AppendNote(old.note, "manual_not_found")]
      [] ch.kind = "id" ->
           [old EXCEPT !.tmdb = ch.id, !.status = "MATCHED",
                       !.note = AppendNote(old.note, "manual_fix")]
      [] OTHER -> old

\* the row after the operator's choice
ResolveWrite(old, ch) ==
    CASE ch.kind = "n" ->
           [old EXCEPT !.status = "NOT_FOUND",
                       !.note = AppendNote(old.note, "manual_not_found")]
      [] ch.kind = "id" /\ ch.id # NoTmdb ->
           [old EXCEPT !.tmdb = ch.id, !.status = "MATCHED",
                       !.note = AppendNote(old.note, "manual_fix")]
      [] OTHER -> old

\* rest of the loop body: the choice, its UPDATE and commit
ResolveChoice(p) ==
    /\ proc[p].kind = "resolve" /\ proc[p].pc = "prompt"
    /\ \E ch \in Choices :
         LET i == proc[p].cur
             new == ResolveWrite(rec[i], ch)
         IN  /\ Len(new.note) <= MaxNoteLen
             /\ rec' = UpdateRow(i, new)
    /\ proc' = [proc EXCEPT ![p].cur = NoRec, ![p].pc = "loop"]
    /\ UNCHANGED <<canon, active, fk, calc>>

\* ---- box-set replacer: replace_boxset_with_films.py ----
\* the free slots that follow every row ever inserted, in id order
FreeSlots == SortedSeq({i \in Recs : rec[i] = AbsentRow})

\* the row inserted for one confirmed film
BoxsetFilmRow(t) == [src |-> "BR", status |-> "MATCHED", tmdb |-> t, note |-> <<"boxset">>]

\* the box-set row after step 4
BoxsetOldRow(old, del) ==
    IF del THEN DeletedRow
    ELSE [old EXCEPT !.status = "REPLACED",
                     !.note = AppendNote(old.note, "replaced_by_manual_ids")]

\* one run with at least one confirmed film and no --dry-run: the inserts
\* and the delete or mark of the box-set row, in one transaction
Boxset(p, b, films, del) ==
    /\ proc[p].kind = "idle"
    /\ rec[b].src = "BR"
    /\ films # <<>> /\ Len(films) <= Len(FreeSlots)
    /\ rec' = [i \in Recs |->
                 IF i = b THEN BoxsetOldRow(rec[b], del)
                 ELSE IF \E k \in 1..Len(films) : FreeSlots[k] = i
                      THEN BoxsetFilmRow(films[CHOOSE k \in 1..Len(films) : FreeSlots[k] = i])
                      ELSE rec[i]]
    /\ UNCHANGED <<canon, proc, active, fk, calc>>

\* the --ids given and confirmed: tmdb ids in the order given
FilmLists == UNION {[1..n -> Tmdb] : n \in 1..NumRecs}

Next ==
    \/ \E p \in active, s \in Sources, lim \in 1..MaxLimit : StartMatch(p, s, lim)
    \/ \E p \in active : MatchBegin(p)
    \/ \E p \in active : MatchFinish(p)
    \/ \E p \in active, s \in Sources, lim \in 1..MaxLimit : StartApply(p, s, lim)
    \/ \E p \in active : ApplyBegin(p)
    \/ \E p \in active : ApplyFinish(p)
    \/ \E p \in active : ApplyFail(p)
    \/ \E p \in active, lim \in 1..MaxLimit : StartResolve(p, lim)
    \/ \E p \in active : ResolveBegin(p)
    \/ \E p \in active : ResolveRaise(p)
    \/ \E p \in active : ResolveChoice(p)
    \/ \E p \in active, b \in Recs, films \in FilmLists, del \in BOOLEAN :
          Boxset(p, b, films, del)
    \/ \E p \in active : EndRun(p)
    \/ \E p \in active : Crash(p)

Spec == Init /\ [][Next]_vars

\* Match and apply drivers run side by side over one staged row
InitConc ==
    /\ InitDb
    /\ active = Procs
    /\ Present(rec[1]) /\ \A i \in Recs \ {1} : ~Present(rec[i])

NextConc ==
    \/ \E p \in active, s \in Sources, lim \in 1..MaxLimit : StartMatch(p, s, lim)
    \/ \E p \in active : MatchBegin(p)
    \/ \E p \in active : MatchFinish(p)
    \/ \E p \in active, s \in Sources, lim \in 1..MaxLimit : StartApply(p, s, lim)
    \/ \E p \in active : ApplyBegin(p)
    \/ \E p \in active : ApplyFinish(p)
    \/ \E p \in active : ApplyFail(p)
    \/ \E p \in active : EndRun(p)
    \/ \E p \in active : Crash(p)

SpecConc == InitConc /\ [][NextConc]_vars

\* The scripts run again and again over one staged row: every script that
\* has something to do is started again and again, and a started script
\* takes its steps; crashes and failures may or may not happen.
InitRetry ==
    /\ InitDb
    /\ active = {1}
    /\ Present(rec[1]) /\ \A i \in Recs \ {1} : ~Present(rec[i])

NextRetry ==
    \/ \E p \in active, s \in Sources, lim \in 1..MaxLimit : StartMatch(p, s, lim)
    \/ \E p \in active : MatchBegin(p)
    \/ \E p \in active : MatchFinish(p)
    \/ \E p \in active, s \in Sources, lim \in 1..MaxLimit : StartApply(p, s, lim)
    \/ \E p \in active : ApplyBegin(p)
    \/ \E p \in active : ApplyFinish(p)
    \/ \E p \in active : ApplyFail(p)
    \/ \E p \in active, lim \in 1..MaxLimit : StartResolve(p, lim)
    \/ \E p \in active : ResolveBegin(p)
    \/ \E p \in active : ResolveRaise(p)
    \/ \E p \in active : ResolveChoice(p)
    \/ \E p \in active : EndRun(p)
    \/ \E p \in active : Crash(p)

FairRetry ==
    /\ \A s \in Sources :
          /\ SF_vars(\E p \in active, lim \in 1..MaxLimit : StartMatch(p, s, lim))
          /\ SF_vars(\E p \in active, lim \in 1..MaxLimit : StartApply(p, s, lim))
    /\ SF_vars(\E p \in active, lim \in 1..MaxLimit : StartResolve(p, lim))
    /\ WF_vars(\E p \in active : MatchBegin(p))
    /\ WF_vars(\E p \in active : MatchFinish(p))
    /\ WF_vars(\E p \in active : ApplyBegin(p))
    /\ WF_vars(\E p \in active : ApplyFinish(p))
    /\ WF_vars(\E p \in active : ResolveBegin(p))
    /\ WF_vars(\E p \in active : ResolveChoice(p))
    /\ WF_vars(\E p \in active : EndRun(p))

SpecRetry == InitRetry /\ [][NextRetry]_vars /\ FairRetry

\* The same repeated runs when the operator does not kill every match run:
\* a match run that is started again and again gets to take its steps.
FairPull ==
    /\ FairRetry
    /\ SF_vars(\E p \in active : MatchBegin(p))
    /\ SF_vars(\E p \in active : MatchFinish(p))

SpecPull == InitRetry /\ [][NextRetry]_vars /\ FairPull

\* The match drivers run again and again over a full staging table, with
\* whatever --limit the operator gives: a driver that has a row to read is
\* started again and again, and a started run, which nobody kills, goes
\* through its page to the end.
InitPages ==
    /\ InitDb
    /\ active = {1}
    /\ \A i \in Recs : Present(rec[i])

NextPages ==
    \/ \E p \in active, s \in Sources, lim \in 1..MaxLimit : StartMatch(p, s, lim)
    \/ \E p \in active : MatchBegin(p)
    \/ \E p \in active : MatchFinish(p)
    \/ \E p \in active : EndRun(p)

FairPages ==
    /\ \A s \in Sources :
          SF_vars(\E p \in active, lim \in 1..MaxLimit : StartMatch(p, s, lim))
    /\ WF_vars(\E p \in active : MatchBegin(p))
    /\ WF_vars(\E p \in active : MatchFinish(p))
    /\ WF_vars(\E p \in active : EndRun(p))

SpecPages == InitPages /\ [][NextPages]_vars /\ FairPages

\* ---- tmdb_get: one call of the catalog ----
\* the database of a run that only follows a helper evaluation
EmptyDb ==
    /\ rec = [i \in Recs |-> AbsentRow]
    /\ film = [t \in Tmdb |-> 0]
    /\ source = [s \in LinkedSources |-> 0]
    /\ filmSource = [k \in Tmdb \X LinkedSources \X BOOLEAN |-> 0]
    /\ physCopy = [t \in Tmdb |-> 0]
    /\ nasAsset = [i \in Recs |-> NoTmdb]
    /\ userFilm = [t \in Tmdb |-> "none"]
    /\ watchEvent = [i \in Recs |-> 0]
    /\ proc = [p \in Procs |-> Idle]
    /\ active = {}
    /\ fk = FALSE

\* HTTP status codes of the catalog's answers
Codes == {200, 404, 429, 500}

\* the scripts that call the catalog while they process a record
Clients == {"match_br", "match_nas", "match_seen", "match_wl",
            "apply_br", "apply_nas", "apply_seen", "apply_wl", "resolve"}

\* the scripts whose tmdb_get sends one request and has no retry loop
SingleShot == {"apply_seen", "apply_wl"}

\* retry=3, the default every caller uses
Retry == 3

\* time.sleep(1.5 + i), in half seconds: 3 + 2 * i
BaseDelay == 3
\* a backoff that would not grow with the attempt
Delay_Flat(i) == BaseDelay
Delay(i) == BaseDelay + 2 * i

\* the calls each script makes for one record
CallSites ==
    ({"match_br", "match_nas", "match_seen", "match_wl", "resolve"}
        \X {"search", "credits"})
    \cup ({"apply_br", "apply_nas", "apply_seen", "apply_wl"} \X {"details"})

\* what the caller does with an exception of the call: the except block of
\* the record's try sets ERROR; the watchlist matcher and the resolver
\* swallow a failed credits call; the resolver's search is in no try block
OnFailure(c, site) ==
    IF site = "credits" /\ c \in {"match_wl", "resolve"} THEN "swallowed"
    ELSE IF c = "resolve" THEN "abort"
    ELSE "ERROR"

\* a call about to send its first request; resp lists the answers the
\* catalog will give to the requests of this call, in order
HttpCall(c, site, resp) ==
    [kind |-> "http", client |-> c, site |-> site, resp |-> resp, i |-> 0,
     sent |-> 0, waits |-> <<>>, out |-> "run", record |-> "open"]

\* raise_for_status(): 4xx and 5xx raise
RaisesForStatus(code) == code >= 400

\* a retry loop that would not count its attempts
HttpAttempt_NoCount ==
    /\ calc.kind = "http" /\ calc.out = "run"
    /\ calc.client \notin SingleShot /\ calc.sent < NumAnswers
    /\ LET code == calc.resp[calc.sent + 1]
       IN  calc' = IF code = 429
                   THEN [calc EXCEPT !.sent = @ + 1,
                                     !.waits = Append(@, Delay(calc.i))]
                   ELSE [calc EXCEPT !.sent = @ + 1,
                                     !.out = IF RaisesForStatus(code)
                                             THEN "http_error" ELSE "data"]
    /\ UNCHANGED <<rec, canon, proc, active, fk>>

\* one turn of `for i in range(retry)`: the request, then the sleep and
\* continue on 429, or raise_for_status and return
HttpAttempt ==
    /\ calc.kind = "http" /\ calc.out = "run"
    /\ calc.client \notin SingleShot /\ calc.i < Retry
    /\ LET code == calc.resp[calc.sent + 1]
       IN  calc' = IF code = 429
                   THEN [calc EXCEPT !.sent = @ + 1,
                                     !.waits = Append(@, Delay(calc.i)),
                                     !.i = @ + 1]
                   ELSE [calc EXCEPT !.sent = @ + 1,
                                     !.out = IF RaisesForStatus(code)
                                             THEN "http_error" ELSE "data"]
    /\ UNCHANGED <<rec, canon, proc, active, fk>>

\* the loop ended without a return: raise RuntimeError (rate limit)
HttpGiveUp ==
    /\ calc.kind = "http" /\ calc.out = "run"
    /\ calc.client \notin SingleShot /\ calc.i = Retry
    /\ calc' = [calc EXCEPT !.out = "rate_limited"]
    /\ UNCHANGED <<rec, canon, proc, active, fk>>

\* tmdb_get of tmdb_apply_seen_sc.py and tmdb_apply_watchlist_sc.py: one
\* request, raise_for_status, return
HttpOnce ==
    /\ calc.kind = "http" /\ calc.out = "run"
    /\ calc.client \in SingleShot
    /\ calc' = [calc EXCEPT !.sent = @ + 1,
                            !.out = IF RaisesForStatus(calc.resp[1])
                                    THEN "http_error" ELSE "data"]
    /\ UNCHANGED <<rec, canon, proc, active, fk>>

\* the exception reaches the caller
HttpFailed ==
    /\ calc.kind = "http" /\ calc.out \in {"http_error", "rate_limited"}
    /\ calc.record = "open"
    /\ calc' = [calc EXCEPT !.record = OnFailure(calc.client, calc.site)]
    /\ UNCHANGED <<rec, canon, proc, active, fk>>

InitHttp ==
    /\ EmptyDb
    /\ calc \in {HttpCall(cs[1], cs[2], resp) :
                    cs \in CallSites, resp \in [1..NumAnswers -> Codes]}

NextHttp ==
    \/ HttpAttempt
    \/ HttpGiveUp
    \/ HttpOnce
    \/ HttpFailed

SpecHttp == InitHttp /\ [][NextHttp]_vars

\* ---- score_candidate: the title and year heuristic ----
\* normalized titles: strings over a two-letter alphabet
Titles == UNION {[1..n -> {"a", "b"}] : n \in 0..MaxTitleLen}

\* the query year as str() prints it; <<>> is no year (None or 0)
QueryYears == {<<>>, <<"1", "9", "9">>, <<"1", "9", "9", "5">>}

\* release_date values of a candidate (missing, a year alone, full dates)
ReleaseDates ==
    {<<>>, <<"1", "9", "9", "5">>, <<"1", "9", "9", "5", "-", "1", "2">>,
     <<"1", "9", "9", "6", "-", "0", "1">>}

\* the drivers that score titles: score_candidate of tmdb_match_br.py and
\* tmdb_match_seen_sc.py, the loop body of tmdb_match_watchlist_sc.py
Scorers == {"BR", "SEEN", "WL"}

\* x in y, on strings
Contains(x, y) ==
    \E k \in 0..(Len(y) - Len(x)) : SubSeq(y, k + 1, k + Len(x)) = x

\* y.startswith(x)
StartsWith(y, x) == Len(x) <= Len(y) /\ SubSeq(y, 1, Len(x)) = x

\* the title part: 5 on equality, else 2 when the query is inside the
\* candidate's title or original title (BR: only for a non-empty query)
TitleScore(d, q, title, orig) ==
    IF title = q \/ orig = q THEN 5
    ELSE IF (d = "BR" => q # <<>>) /\ (Contains(q, title) \/ Contains(q, orig)) THEN 2
    ELSE 0

\* the year part: 3 when a year is given and release_date starts with it
YearScore(year, date) ==
    IF year # <<>> /\ StartsWith(date, year) THEN 3 ELSE 0

ScoreCandidate(d, q, year, cand) ==
    TitleScore(d, q, cand.title, cand.orig) + YearScore(year, cand.date)

InitScore ==
    /\ EmptyDb
    /\ calc \in [kind : {"score"}, driver : Scorers, q : Titles, year : QueryYears,
                 cand : [title : Titles, orig : Titles, date : ReleaseDates],
                 out : {-1}]

\* one evaluation of the scoring function
ScoreEval ==
    /\ calc.kind = "score" /\ calc.out = -1
    /\ calc' = [calc EXCEPT !.out = ScoreCandidate(calc.driver, calc.q, calc.year, calc.cand)]
    /\ UNCHANGED <<rec, canon, proc, active, fk>>

NextScore == ScoreEval

SpecScore == InitScore /\ [][NextScore]_vars

\* ---- ranking of the search results ----
\* result lists of up to MaxResults candidates, numbered in catalog order,
\* each with its score; at most one candidate (number h) has a director
\* that overlaps the hint, the others list no director
RankList(sc, h) ==
    [k \in 1..Len(sc) |->
        [id |-> k, score |-> sc[k], dir |-> IF k = h THEN "hit" ELSE "none"]]

InitRank ==
    /\ EmptyDb
    /\ \E n \in 1..MaxResults :
         \E sc \in [1..n -> Scores], h \in {0, 1, n}, d \in Scorers, hint \in BOOLEAN :
            calc = [kind |-> "rank", driver |-> d, hint |-> hint,
                    cands |-> RankList(sc, h), best |-> 0, chosen |-> 0]

\* the ranking and the decision of one record whose calls all succeed
RankEval ==
    /\ calc.kind = "rank" /\ calc.best = 0
    /\ calc' = [calc EXCEPT
                  !.best = RankBest(calc.driver, calc.cands).id,
                  !.chosen = MatchOutcome(calc.driver, calc.hint, calc.cands,
                                          FALSE, FALSE).tmdb]
    /\ UNCHANGED <<rec, canon, proc, active, fk>>

NextRank == RankEval

SpecRank == InitRank /\ [][NextRank]_vars

\* ---- the decision of a match driver for one record ----
InitDecide ==
    /\ EmptyDb
    /\ calc \in [kind : {"decide"}, src : Sources, hint : BOOLEAN, cands : Responses,
                 searchFail : BOOLEAN, creditsFail : BOOLEAN,
                 credits : {FALSE}, out : {Outcome("none", NoTmdb, FALSE, <<>>)}]

\* the try block of the source's match driver, for one record
DecideEval ==
    /\ calc.kind = "decide" /\ calc.out.status = "none"
    /\ calc' = [calc EXCEPT
                  !.out = MatchOutcome(calc.src, calc.hint, calc.cands,
                                       calc.searchFail, calc.creditsFail),
                  !.credits = ~calc.searchFail /\ calc.cands # <<>>
                                /\ CreditsCalled(calc.src, calc.hint, calc.cands)]
    /\ UNCHANGED <<rec, canon, proc, active, fk>>

NextDecide == DecideEval

SpecDecide == InitDecide /\ [][NextDecide]_vars

\* ---- director disambiguation ----
\* longest result list given to the director disambiguation
MaxTied == 5

\* the candidates whose credits a driver may ask for, in the order it asks:
\* the three best scored (BR, seen), or the first five results in catalog
\* order (NAS, watchlist)
DirectorPool(s, cands) ==
    IF s \in {"BR", "SEEN"} THEN FirstN(SortDesc(FirstN(cands, 10)), 3)
    ELSE FirstN(cands, 5)

\* place in the pool of the candidate chosen by its directors, or 0: the
\* first overlap (the loop breaks there); NAS takes the first exact match
\* after it has scored every candidate of the pool
DirectorPick(s, hint, cands) ==
    LET pool == DirectorPool(s, cands)
    IN  IF ~CreditsCalled(s, hint, cands) THEN 0
        ELSE IF s = "NAS"
             THEN IF pool[NasBest(pool)].dir = "hit" THEN NasBest(pool) ELSE 0
             ELSE FirstOverlap(hint, pool)

\* number of credits calls made for one record when every call succeeds
CreditsCalls(s, hint, cands) ==
    LET pool == DirectorPool(s, cands)
        k == DirectorPick(s, hint, cands)
    IN  IF ~CreditsCalled(s, hint, cands) THEN 0
        ELSE IF s # "NAS" /\ k # 0 THEN k
        ELSE Len(pool)

\* result lists numbered in catalog order (id = place in the list)
TiedList(sc, dr) ==
    [k \in 1..Len(sc) |-> [id |-> k, score |-> sc[k], dir |-> dr[k]]]

InitDisamb ==
    /\ EmptyDb
    /\ \E n \in 1..MaxTied :
         \E sc \in [1..n -> Scores], dr \in [1..n -> DirRels],
            s \in Sources, hint \in BOOLEAN :
            calc = [kind |-> "disamb", src |-> s, hint |-> hint,
                    cands |-> TiedList(sc, dr), calls |-> -1, pick |-> 0,
                    out |-> Outcome("none", NoTmdb, FALSE, <<>>)]

\* the decision of one record whose calls all succeed, with the number of
\* credits calls and the candidate picked by its directors (0: none)
DisambEval ==
    /\ calc.kind = "disamb" /\ calc.calls = -1
    /\ LET k == DirectorPick(calc.src, calc.hint, calc.cands)
       IN  calc' = [calc EXCEPT
                      !.out = MatchOutcome(calc.src, calc.hint, calc.cands, FALSE, FALSE),
                      !.calls = CreditsCalls(calc.src, calc.hint, calc.cands),
                      !.pick = IF k = 0 THEN 0
                               ELSE DirectorPool(calc.src, calc.cands)[k].id]
    /\ UNCHANGED <<rec, canon, proc, active, fk>>

NextDisamb == DisambEval

SpecDisamb == InitDisamb /\ [][NextDisamb]_vars

\* ---- bracketed annotations ([BR], [4K + DVD], ...) ----
\* position of the first "]" at or after k, 0 when there is none
RECURSIVE FirstClose(_, _)
FirstClose(s, k) ==
    IF k > Len(s) THEN 0
    ELSE IF s[k] = "]" THEN k ELSE FirstClose(s, k + 1)

\* re.sub(r"\[[^\]]*\]", "", s): leftmost matches, each from a "[" to the
\* first "]" after it
RECURSIVE RemoveBrackets(_)
RemoveBrackets(s) ==
    IF s = <<>> THEN <<>>
    ELSE IF s[1] = "[" /\ FirstClose(s, 2) # 0
         THEN RemoveBrackets(SubSeq(s, FirstClose(s, 2) + 1, Len(s)))
         ELSE <<s[1]>> \o RemoveBrackets(Tail(s))

\* ---- the search passes of a match driver ----
\* longest raw title, in words
MaxWords == 2

\* words of a raw title: a stop word, another word, and a separator
\* (one of : - and the en dash)
Words == {"le", "alien", ":"}
STOP == {"le"}
RawTitles == UNION {[1..n -> Words] : n \in 1..MaxWords}

\* re.split(r"[:...]", t)[0]: the words before the first separator
BeforeSeparator(t) ==
    IF \E k \in 1..Len(t) : t[k] = ":"
    THEN SubSeq(t, 1, Min({k \in 1..Len(t) : t[k] = ":"}) - 1)
    ELSE t

\* what re.findall(r"[a-z0-9]+", t) returns: a bracket left alone is no word
IsWord(w) == w \notin {":", "[", "]"}

\* words[:5]
KeywordCut == 5

\* simplify_title without the cut to five words
simplify_title_NoCut(title) ==
    SelectSeq(BeforeSeparator(RemoveBrackets(title)),
              LAMBDA w : IsWord(w) /\ w \notin STOP)

\* simplify_title: bracketed text removed, the part before the first
\* separator, without stop words, cut to five words
simplify_title(title) ==
    FirstN(SelectSeq(BeforeSeparator(RemoveBrackets(title)),
                     LAMBDA w : IsWord(w) /\ w \notin STOP), KeywordCut)

\* the drivers that search a second time when the first search is empty
TwoPass == {"WL"}

\* answers of /search/movie (the directors play no part in the passes)
SearchAnswers == {cs \in Responses : \A k \in 1..Len(cs) : cs[k].dir = "none"}

\* A record about to be searched: ans1 is what the catalog returns for the
\* raw title, ans2 what it returns for the simplified title (the same
\* answer when the two queries are equal, nothing for an empty query)
InitSearch ==
    /\ EmptyDb
    /\ \E s \in Sources, raw \in RawTitles, a1 \in SearchAnswers, a2 \in SearchAnswers :
         /\ simplify_title(raw) = raw => a2 = a1
         /\ simplify_title(raw) = <<>> => a2 = <<>>
         /\ calc = [kind |-> "search", src |-> s, raw |-> raw, ans1 |-> a1, ans2 |-> a2,
                    pc |-> "primary", queries |-> 0, results |-> <<>>,
                    out |-> Outcome("none", NoTmdb, FALSE, <<>>)]

\* results = do_search(raw_title); the watchlist matcher goes on to a second
\* pass `if not results` and `if q2 and q2 != raw_title`
SearchPrimary ==
    /\ calc.kind = "search" /\ calc.pc = "primary"
    /\ LET q2 == simplify_title(calc.raw)
       IN  calc' = [calc EXCEPT
                      !.queries = 1,
                      !.results = calc.ans1,
                      !.pc = IF calc.src \in TwoPass /\ calc.ans1 = <<>>
                                 /\ q2 # <<>> /\ q2 # calc.raw
                             THEN "fallback" ELSE "decide"]
    /\ UNCHANGED <<rec, canon, proc, active, fk>>

\* results = do_search(q2)
SearchFallback ==
    /\ calc.kind = "search" /\ calc.pc = "fallback"
    /\ calc' = [calc EXCEPT !.queries = 2, !.results = calc.ans2, !.pc = "decide"]
    /\ UNCHANGED <<rec, canon, proc, active, fk>>

\* the rest of the try block on the results kept (no director hint)
SearchDecide ==
    /\ calc.kind = "search" /\ calc.pc = "decide"
    /\ calc' = [calc EXCEPT
                  !.out = MatchOutcome(calc.src, FALSE, calc.results, FALSE, FALSE),
                  !.pc = "done"]
    /\ UNCHANGED <<rec, canon, proc, active, fk>>

NextSearch ==
    \/ SearchPrimary
    \/ SearchFallback
    \/ SearchDecide

SpecSearch == InitSearch /\ [][NextSearch]_vars

\* ---- simplify_title and the query it feeds ----
\* longest raw title, in tokens
MaxTokens == 6

\* tokens of a raw title: a stop word, two other words, a separator and the
\* two square brackets
Tokens == {"le", "alien", "2", ":", "[", "]"}

TokenTitles == UNION {[1..n -> Tokens] : n \in 0..MaxTokens}

\* the callers of simplify_title: the watchlist matcher and the resolver's
\* search_candidates
Simplifiers == {"match_wl", "resolve"}

\* A raw title about to be searched by one of the two callers; sent is the
\* list of the queries sent to /search/movie
InitSimplify ==
    /\ EmptyDb
    /\ calc \in [kind : {"simplify"}, client : Simplifiers, raw : TokenTitles,
                 pc : {"primary"}, found1 : {FALSE}, q2 : {<<>>}, sent : {<<>>}]

\* the first search, with the raw title; when it returns nothing q2 is
\* computed, and searched unless the watchlist matcher finds it empty or
\* equal to the raw title
SimplifyPrimary ==
    /\ calc.kind = "simplify" /\ calc.pc = "primary"
    /\ \E found \in BOOLEAN :
         LET q2 == simplify_title(calc.raw)
             again == /\ ~found
                      /\ calc.client = "match_wl" => (q2 # <<>> /\ q2 # calc.raw)
         IN  calc' = [calc EXCEPT
                        !.found1 = found,
                        !.sent = <<calc.raw>>,
                        !.q2 = IF found THEN <<>> ELSE q2,
                        !.pc = IF again THEN "fallback" ELSE "done"]
    /\ UNCHANGED <<rec, canon, proc, active, fk>>

\* the second search, with q2
SimplifyFallback ==
    /\ calc.kind = "simplify" /\ calc.pc = "fallback"
    /\ calc' = [calc EXCEPT !.sent = Append(calc.sent, calc.q2), !.pc = "done"]
    /\ UNCHANGED <<rec, canon, proc, active, fk>>

NextSimplify == SimplifyPrimary \/ SimplifyFallback

SpecSimplify == InitSimplify /\ [][NextSimplify]_vars

\* ---- two applies of one film, in both orders ----
\* what /movie/<id> returns: the six columns every driver writes (title,
\* original_title, release_date, year, runtime_min, overview) and the seven
\* only the BR and NAS drivers write (imdb_id, original_language,
\* poster_path, backdrop_path, popularity, vote average and count)
Details == [core : {"c1", "c2"}, extra : {"e1", "e2"}]

NoFilm == [core |-> "none", extra |-> "none"]
NoUserFilm == [status |-> "none", first |-> "none", last |-> "none"]

\* INSERT INTO film ... ON CONFLICT (tmdb_id) DO UPDATE SET ...: upsert_film
\* of BR and NAS sets every column; the seen and watchlist statements set
\* the six core columns and leave the others (NULL on insert)
UpsertFilm(row, s, d) ==
    IF s \in LinkedSources THEN [core |-> d.core, extra |-> d.extra]
    ELSE IF row = NoFilm THEN [core |-> d.core, extra |-> "null"]
    ELSE [row EXCEPT !.core = d.core]

\* INSERT INTO user_film ... ON CONFLICT (user_id, film_id) DO UPDATE: the
\* seen driver sets status, rating and last_seen_at (first_seen_at only on
\* insert); the watchlist driver sets the status only; w is the record's
\* watched date ("null" when it has none)
UpsertUserFilm(uf, s, w) ==
    CASE s = "SEEN" ->
           IF uf = NoUserFilm THEN [status |-> "SEEN", first |-> w, last |-> w]
           ELSE [uf EXCEPT !.status = "SEEN", !.last = w]
      [] s = "WL" ->
           IF uf = NoUserFilm THEN [status |-> "WANT", first |-> "null", last |-> "null"]
           ELSE [uf EXCEPT !.status = WantUnlessSeen(@)]
      [] OTHER -> uf

\* one successful apply of a record of source s on the rows of its film
ApplyOne(c, s, d, w) ==
    [film |-> UpsertFilm(c.film, s, d), uf |-> UpsertUserFilm(c.uf, s, w)]

\* two MATCHED records of different sources with the same tmdb_id; A follows
\* the rows of their film when the first is applied before the second, B
\* when the second is applied before the first
InitOrder ==
    /\ EmptyDb
    /\ \E s1 \in Sources, s2 \in Sources, t \in Tmdb, d \in Details,
          w \in {"null", "date"} :
         /\ s1 # s2
         /\ calc = [kind |-> "order", first |-> s1, second |-> s2, tmdb |-> t,
                    details |-> d, watched |-> w, step |-> 0,
                    A |-> [film |-> NoFilm, uf |-> NoUserFilm],
                    B |-> [film |-> NoFilm, uf |-> NoUserFilm]]

\* the earlier apply of each order
OrderFirst ==
    /\ calc.kind = "order" /\ calc.step = 0
    /\ calc' = [calc EXCEPT
                  !.step = 1,
                  !.A = ApplyOne(@, calc.first, calc.details, calc.watched),
                  !.B = ApplyOne(@, calc.second, calc.details, calc.watched)]
    /\ UNCHANGED <<rec, canon, proc, active, fk>>

\* the later apply of each order
OrderSecond ==
    /\ calc.kind = "order" /\ calc.step = 1
    /\ calc' = [calc EXCEPT
                  !.step = 2,
                  !.A = ApplyOne(@, calc.second, calc.details, calc.watched),
                  !.B = ApplyOne(@, calc.first, calc.details, calc.watched)]
    /\ UNCHANGED <<rec, canon, proc, active, fk>>

NextOrder ==
    \/ OrderFirst
    \/ OrderSecond

SpecOrder == InitOrder /\ [][NextOrder]_vars

\* ---- the note of an ERROR transition ----
\* longest exception message
MaxMsgLen == 1100

\* the match and apply drivers (each has the except handler)
Drivers == Clients \ {"resolve"}

\* str(e)[:900], and str(e)[:1000] in the NAS matcher
ShortCut == 900
LongCut == 1000

\* a handler that would store the whole message
ErrCut_None(c) == MaxMsgLen + 1

\* the slice the handler of driver c takes of the message
ErrCut(c) == IF c = "match_nas" THEN LongCut ELSE ShortCut

\* the fixed text the handler puts before the message: "match: " in the BR
\* matcher, "apply: " in the BR and NAS apply drivers, nothing elsewhere
ErrPrefix(c) ==
    CASE c = "match_br" -> <<"m", "a", "t", "c", "h", ":", " ">>
      [] c \in {"apply_br", "apply_nas"} -> <<"a", "p", "p", "l", "y", ":", " ">>
      [] OTHER -> <<>>

\* the match_note of the except handler's UPDATE
ErrorNote(c, msg) == ErrPrefix(c) \o FirstN(msg, ErrCut(c))

\* an exception message of n characters, each written as its position
Message(n) == [k \in 1..n |-> k]

InitErrNote ==
    /\ EmptyDb
    /\ calc \in [kind : {"errnote"}, client : Drivers,
                 msg : {Message(n) : n \in 0..MaxMsgLen}, note : {<<>>},
                 done : {FALSE}]

\* the except handler builds the note of its UPDATE
ErrNoteEval ==
    /\ calc.kind = "errnote" /\ ~calc.done
    /\ calc' = [calc EXCEPT !.note = ErrorNote(calc.client, calc.msg), !.done = TRUE]
    /\ UNCHANGED <<rec, canon, proc, active, fk>>

NextErrNote == ErrNoteEval

SpecErrNote == InitErrNote /\ [][NextErrNote]_vars

\* ---- norm: title normalization ----
\* tmdb_match_seen_sc.py:35-39 (the same text in tmdb_match_watchlist_sc.py
\* and resolve_seen_sc.py) and tmdb_match_br.py:35-38.  A title is a
\* sequence of characters over a small alphabet: a lowercase letter, an
\* uppercase letter, a digit, a space, a tab, a punctuation mark, an accented
\* letter in both cases (written e' and E'), and the two square brackets.
MaxNormLen == 4

Tab == "\t"

Alphabet == {"a", "A", "1", " ", Tab, "!", "e'", "E'", "[", "]"}

NormTitles == UNION {[1..n -> Alphabet] : n \in 0..MaxNormLen}

\* str.lower() on one character
LowerChar(c) == IF c = "A" THEN "a" ELSE IF c = "E'" THEN "e'" ELSE c

lower(s) == [k \in 1..Len(s) |-> LowerChar(s[k])]

\* \s of the regular expressions, and what str.strip() removes
IsSpace(c) == c \in {" ", Tab}

\* the class [a-z0-9 ] of tmdb_match_seen_sc.py:38
IsPlain(c) == c \in {"a", "1", " "}

\* re.sub(CLASS+, " ", s): every maximal run of characters of the class
\* becomes one space
RECURSIVE SubRuns(_, _, _)
SubRuns(s, inClass, inRun) ==
    IF s = <<>> THEN <<>>
    ELSE IF s[1] \in inClass
         THEN (IF inRun THEN <<>> ELSE <<" ">>) \o SubRuns(Tail(s), inClass, TRUE)
         ELSE <<s[1]>> \o SubRuns(Tail(s), inClass, FALSE)

RECURSIVE LStrip(_)
LStrip(s) == IF s # <<>> /\ IsSpace(s[1]) THEN LStrip(Tail(s)) ELSE s

RECURSIVE RStrip(_)
RStrip(s) ==
    IF s # <<>> /\ IsSpace(s[Len(s)]) THEN RStrip(SubSeq(s, 1, Len(s) - 1)) ELSE s

strip(s) == RStrip(LStrip(s))

NormVariants == {"seen", "br"}

\* tmdb_match_seen_sc.py:35-39
norm_seen(s) ==
    strip(SubRuns(SubRuns(RemoveBrackets(lower(s)),
                          {c \in Alphabet : ~IsPlain(c)}, FALSE),
                  {c \in Alphabet : IsSpace(c)}, FALSE))

\* tmdb_match_br.py:35-38
norm_br(s) == SubRuns(lower(strip(s)), {c \in Alphabet : IsSpace(c)}, FALSE)

norm(v, s) == IF v = "br" THEN norm_br(s) ELSE norm_seen(s)

\* the title has a bracketed annotation: a "[" with a "]" after it
HasBrackets(s) == \E k \in 1..Len(s) : s[k] = "[" /\ FirstClose(s, k + 1) # 0

InitNorm ==
    /\ EmptyDb
    /\ calc \in [kind : {"norm"}, variant : NormVariants, title : NormTitles,
                 once : {<<>>}, twice : {<<>>}, step : {0}]

\* norm(t)
NormOnce ==
    /\ calc.kind = "norm" /\ calc.step = 0
    /\ calc' = [calc EXCEPT !.once = norm(calc.variant, calc.title), !.step = 1]
    /\ UNCHANGED <<rec, canon, proc, active, fk>>

\* norm(norm(t))
NormTwice ==
    /\ calc.kind = "norm" /\ calc.step = 1
    /\ calc' = [calc EXCEPT !.twice = norm(calc.variant, calc.once), !.step = 2]
    /\ UNCHANGED <<rec, canon, proc, active, fk>>

NextNorm == NormOnce \/ NormTwice

SpecNorm == InitNorm /\ [][NextNorm]_vars

\* ---- disc formats: from the bracket tokens to physical_copy.format ----
\* import_br.py:21-51 and tmdb_apply_br.py:99-126, 170-172
\* longest list of tokens found between the brackets of a raw title
MaxFmtTokens == 3

\* tokens as typed in the titles (already split and stripped): the spellings
\* normalize_tokens knows, one in lowercase, and one it does not know
FmtTokens == {"4K", "UHD", "BR", "BD", "BLU-RAY", "DVD", "dvd", "VHS"}

TokenLists == UNION {[1..n -> FmtTokens] : n \in 0..MaxFmtTokens}

\* p.strip().upper()
UpperToken(t) == IF t = "dvd" THEN "DVD" ELSE t

\* t.replace("BLU-RAY", "BR").replace("BLURAY", "BR")
CommonVariant(t) == IF t = "BLU-RAY" THEN "BR" ELSE t

\* the value appended for one token, "" when none is
StagedFormat(t) ==
    LET u == CommonVariant(UpperToken(t))
    IN  IF u \in {"4K", "UHD", "ULTRA HD", "ULTRAHD"} THEN "UHD"
        ELSE IF u \in {"BR", "BD"} THEN "BR"
        ELSE IF u = "DVD" THEN "DVD"
        ELSE ""

\* uniq while preserving order
RECURSIVE Uniq(_)
Uniq(sq) ==
    IF sq = <<>> THEN <<>>
    ELSE LET front == Uniq(SubSeq(sq, 1, Len(sq) - 1))
         IN  IF \E k \in 1..Len(front) : front[k] = sq[Len(sq)]
             THEN front ELSE Append(front, sq[Len(sq)])

\* normalize_tokens: the formats column of import_br
normalize_tokens(tokens) ==
    Uniq(SelectSeq([k \in 1..Len(tokens) |-> StagedFormat(tokens[k])],
                   LAMBDA f : f # ""))

\* physical_copy.format left NULL
NoFormat == "NULL"

\* choose_primary_format: priority 4K > BR > DVD over the staged formats,
\* mapped to the enum physical_format
choose_primary_format(formats) ==
    LET s == {UpperToken(formats[k]) : k \in 1..Len(formats)}
    IN  IF formats = <<>> THEN NoFormat
        ELSE IF "4K" \in s THEN "UHD"
        ELSE IF "BR" \in s THEN "BLURAY"
        ELSE IF "DVD" \in s THEN "DVD"
        ELSE NoFormat

InitFormat ==
    /\ EmptyDb
    /\ calc \in [kind : {"format"}, tokens : TokenLists, formats : {<<>>},
                 primary : {NoFormat}, step : {0}]

\* import_br.py: formats = normalize_tokens(tokens), stored in import_br
FormatImport ==
    /\ calc.kind = "format" /\ calc.step = 0
    /\ calc' = [calc EXCEPT !.formats = normalize_tokens(calc.tokens), !.step = 1]
    /\ UNCHANGED <<rec, canon, proc, active, fk>>

\* tmdb_apply_br.py: primary = choose_primary_format(formats), written to
\* physical_copy.format
FormatApply ==
    /\ calc.kind = "format" /\ calc.step = 1
    /\ calc' = [calc EXCEPT !.primary = choose_primary_format(calc.formats), !.step = 2]
    /\ UNCHANGED <<rec, canon, proc, active, fk>>

NextFormat == FormatImport \/ FormatApply

SpecFormat == InitFormat /\ [][NextFormat]_vars

\* ---- the manual resolver's prompt: resolve_seen_sc.py:110-153 ----
\* what the operator types, after .strip().lower(): "s", nothing, "n",
\* "id:" followed by a text, or a text without that prefix; a text is an
\* integer (arg) or not one
Typed ==
    [form : {"s", "empty", "n"}, numeric : {FALSE}, arg : {0}]
        \cup [form : {"id:", "plain"}, numeric : {FALSE}, arg : {0}]
        \cup [form : {"id:"}, numeric : {TRUE}, arg : (0 - 1)..MaxTmdb]
        \cup [form : {"plain"}, numeric : {TRUE}, arg : (0 - 1)..(MaxCands + 1)]

\* the ids of the candidates listed, in the order shown
ShownIds == UNION {[1..n -> Tmdb] : n \in 0..MaxCands}

\* a pick that would take any number typed as a position of the list
PickedId_NoRange(ty, cands) ==
    IF ty.form = "id:" THEN ty.arg
    ELSE IF cands = <<>> THEN ty.arg
    ELSE IF ty.arg < 1 THEN cands[1]
    ELSE IF ty.arg > Len(cands) THEN cands[Len(cands)]
    ELSE cands[ty.arg]

\* chosen_id for an input that parses as an integer: the id typed, or the
\* id of the k-th candidate when 1 <= k <= len(cands), else None (0 here,
\* both fail `if not chosen_id`)
PickedId(ty, cands) ==
    IF ty.form = "id:" THEN ty.arg
    ELSE IF 1 <= ty.arg /\ ty.arg <= Len(cands) THEN cands[ty.arg]
    ELSE NoTmdb

\* the branch taken for an input: skip (every `continue` without a write),
\* 'n', or an id
ParseChoice(ty, cands) ==
    IF ty.form \in {"s", "empty"} THEN [kind |-> "skip", id |-> NoTmdb]
    ELSE IF ty.form = "n" THEN [kind |-> "n", id |-> NoTmdb]
    ELSE IF ~ty.numeric THEN [kind |-> "skip", id |-> NoTmdb]
    ELSE [kind |-> "id", id |-> PickedId(ty, cands)]

\* conn.commit() is reached: after the UPDATE of 'n' or of a chosen id
ChoiceCommits(ch) == ch.kind = "n" \/ (ch.kind = "id" /\ ch.id # NoTmdb)

\* the seen rows the resolver reads
PromptRows ==
    [src : {"SEEN"}, status : DefaultStatuses, tmdb : {NoTmdb} \cup Tmdb,
     note : {<<>>, <<"error">>}]

InitPrompt ==
    /\ EmptyDb
    /\ calc \in [kind : {"prompt"}, old : PromptRows, cands : ShownIds, typed : Typed,
                 row : {AbsentRow}, commits : {0}, step : {0}]

\* from input() to the end of the loop body
PromptAnswer ==
    /\ calc.kind = "prompt" /\ calc.step = 0
    /\ LET ch == ParseChoice(calc.typed, calc.cands)
           new == ResolveWrite(calc.old, ch)
       IN  calc' = [calc EXCEPT !.row = new,
                                !.commits = IF ChoiceCommits(ch) THEN 1 ELSE 0,
                                !.step = 1]
    /\ UNCHANGED <<rec, canon, proc, active, fk>>

NextPrompt == PromptAnswer

SpecPrompt == InitPrompt /\ [][NextPrompt]_vars

\* ---- one run of replace_boxset_with_films.py, statement by statement ----
\* box and rows are the committed box-set row and the committed rows
\* inserted by the run; tbox and trows are what the run's open transaction
\* sees.
InitBoxRun ==
    /\ EmptyDb
    /\ \E b \in {ImportedRow("BR", st) : st \in BRImportStatuses} :
         calc \in [kind : {"boxset"}, ids : FilmLists, dry : BOOLEAN, del : BOOLEAN,
                   pc : {"preview"}, k : {1}, to_insert : {<<>>},
                   box0 : {b}, box : {b}, rows : {<<>>}, tbox : {b}, trows : {<<>>},
                   exit : {"running"}]

\* step 2, one film: preview and confirmation
BoxPreview ==
    /\ calc.kind = "boxset" /\ calc.pc = "preview"
    /\ \E ans \in BOOLEAN :
         calc' = [calc EXCEPT
                    !.to_insert = IF ans THEN Append(@, calc.ids[calc.k]) ELSE @,
                    !.k = @ + 1,
                    !.pc = IF calc.k = Len(calc.ids) THEN "decide" ELSE "preview"]
    /\ UNCHANGED <<rec, canon, proc, active, fk>>

\* a run that would not look at --dry-run
BoxDecide_IgnoreDry ==
    /\ calc.kind = "boxset" /\ calc.pc = "decide"
    /\ calc' = IF calc.to_insert = <<>>
               THEN [calc EXCEPT !.pc = "done", !.exit = "none",
                                 !.tbox = calc.box, !.trows = calc.rows]
               ELSE [calc EXCEPT !.pc = "insert", !.k = 1]
    /\ UNCHANGED <<rec, canon, proc, active, fk>>

\* `if not to_insert` and `if args.dry_run`: rollback and return
BoxDecide ==
    /\ calc.kind = "boxset" /\ calc.pc = "decide"
    /\ calc' = IF calc.to_insert = <<>>
               THEN [calc EXCEPT !.pc = "done", !.exit = "none",
                                 !.tbox = calc.box, !.trows = calc.rows]
               ELSE IF calc.dry
               THEN [calc EXCEPT !.pc = "done", !.exit = "dry",
                                 !.tbox = calc.box, !.trows = calc.rows]
               ELSE [calc EXCEPT !.pc = "insert", !.k = 1]
    /\ UNCHANGED <<rec, canon, proc, active, fk>>

\* step 3, one film: INSERT INTO import_br
BoxInsert ==
    /\ calc.kind = "boxset" /\ calc.pc = "insert"
    /\ calc' = [calc EXCEPT
                  !.trows = Append(@, BoxsetFilmRow(calc.to_insert[calc.k])),
                  !.k = @ + 1,
                  !.pc = IF calc.k = Len(calc.to_insert) THEN "mark" ELSE "insert"]
    /\ UNCHANGED <<rec, canon, proc, active, fk>>

\* step 4: DELETE or UPDATE of the box-set row
BoxMark ==
    /\ calc.kind = "boxset" /\ calc.pc = "mark"
    /\ calc' = [calc EXCEPT !.tbox = BoxsetOldRow(@, calc.del), !.pc = "commit"]
    /\ UNCHANGED <<rec, canon, proc, active, fk>>

\* conn.commit()
BoxCommit ==
    /\ calc.kind = "boxset" /\ calc.pc = "commit"
    /\ calc' = [calc EXCEPT !.box = calc.tbox, !.rows = calc.trows,
                            !.pc = "done", !.exit = "ok"]
    /\ UNCHANGED <<rec, canon, proc, active, fk>>

\* a catalog call or a statement raises, or the run is killed: the
\* with-block (or the server) rolls the open transaction back
BoxRaise ==
    /\ calc.kind = "boxset" /\ calc.pc \in {"preview", "insert", "mark", "commit"}
    /\ calc' = [calc EXCEPT !.tbox = calc.box, !.trows = calc.rows,
                            !.pc = "done", !.exit = "exc"]
    /\ UNCHANGED <<rec, canon, proc, active, fk>>

NextBoxRun ==
    \/ BoxPreview
    \/ BoxDecide
    \/ BoxInsert
    \/ BoxMark
    \/ BoxCommit
    \/ BoxRaise

SpecBoxRun == InitBoxRun /\ [][NextBoxRun]_vars

\* ======================= claims =======================
Statuses == {"PENDING", "MATCHED", "AMBIGUOUS", "NOT_FOUND", "ERROR", "APPLIED"}

\* a row kept by a step whose status the step changed
StatusChanged(i) ==
    Present(rec[i]) /\ Present(rec'[i]) /\ rec'[i].status # rec[i].status

\* the state machine of the specification
SpecTransitions ==
    {<<"PENDING", "MATCHED">>, <<"PENDING", "AMBIGUOUS">>, <<"PENDING", "NOT_FOUND">>,
     <<"PENDING", "ERROR">>, <<"AMBIGUOUS", "MATCHED">>, <<"AMBIGUOUS", "NOT_FOUND">>,
     <<"MATCHED", "APPLIED">>, <<"MATCHED", "ERROR">>, <<"ERROR", "PENDING">>}

MatchResults == {"MATCHED", "AMBIGUOUS", "NOT_FOUND", "ERROR"}

\* the status changes the scripts make when they run one at a time
CodeTransitions(s) ==
    (IF s = "BR"
     THEN {<<a, b>> \in {"NOT_FOUND", "ERROR"} \X MatchResults : a # b}
            \cup {<<a, "REPLACED">> : a \in Statuses}
     ELSE {<<"PENDING", b>> : b \in MatchResults})
    \cup (IF s \in LinkedSources THEN {<<"MATCHED", "APPLIED">>} ELSE {})
    \cup {<<"MATCHED", "ERROR">>}
    \cup (IF s = "SEEN"
          THEN {<<a, "MATCHED">> : a \in DefaultStatuses}
                 \cup {<<"ERROR", "NOT_FOUND">>, <<"AMBIGUOUS", "NOT_FOUND">>}
          ELSE {})

C3_SixStatuses == \A i \in Recs : Present(rec[i]) => rec[i].status \in Statuses

\* C3 amended: every record's match_status is one of PENDING, MATCHED,
\* AMBIGUOUS, NOT_FOUND, ERROR, APPLIED or REPLACED, and REPLACED is only on
\* BR rows (written by the box-set replacer).
C3_SevenStatuses ==
    \A i \in Recs :
        Present(rec[i]) =>
            /\ rec[i].status \in Statuses \cup {"REPLACED"}
            /\ rec[i].status = "REPLACED" => rec[i].src = "BR"

\* a box-set row marked REPLACED next to the film row inserted for it
C3_Witness ==
    \E i, j \in Recs :
        /\ rec[i].status = "REPLACED"
        /\ rec[j].note = <<"boxset">>

\* C4 as stated: no record is processed by two workers at once (a record is
\* claimed before work on it starts).  Checked under SpecConc.
C4_OneWorkerPerRecord ==
    \A p, q \in Procs :
        (p # q /\ proc[p].cur # NoRec) => proc[q].cur # proc[p].cur

\* a row carries the applied marker
Applied(i) == Present(rec[i]) /\ HasApplied(rec[i].note)

\* row i is in the page of process slot pr (being processed or still to do)
InPage(pr, i) == pr.cur = i \/ \E k \in 1..Len(pr.todo) : pr.todo[k].id = i

C6_AppliedAfterApply ==
    [][\A i \in Recs :
          (Present(rec[i]) /\ rec'[i].note = AppendNote(rec[i].note, "applied")) =>
              (rec'[i].status = "APPLIED" /\ Last(rec'[i].note) = "applied")]_vars

\* C7 as stated, for the rest of the batch: whatever happened to the earlier
\* records of the run, the record being applied can complete with a link to
\* the source row that ensure_source returned (the failure of another
\* record took nothing away that this record needs).
C7_OthersUnaffected ==
    \A p \in Procs :
        (proc[p].kind = "apply" /\ proc[p].src \in LinkedSources /\ proc[p].pc = "film")
            => proc[p].srcOk

C9_NoRunAborted == \A p \in Procs : proc[p].exit = "ok"

\* C10 as stated: a record in ERROR is eventually taken up again by a
\* script when the scripts are run repeatedly.  Checked under SpecRetry.
C10_ErrorRetried ==
    \A i \in Recs :
        (Present(rec[i]) /\ rec[i].status = "ERROR")
            ~> (\E p \in Procs : proc[p].cur = i)

\* the first n answers of the call were all 429
All429(n) == \A k \in 1..n : calc.resp[k] = 429

\* C11: a call through a tmdb_get with the retry loop sends at most 3
\* requests; every 429 received was followed by a wait; the call returns
\* data exactly on a non-429 answer below 400 that follows only 429
\* answers; and it raises the rate-limit failure only after three requests
\* all answered 429, without having returned data.  Checked under SpecHttp.
C11_ThreeAttempts ==
    (calc.kind = "http" /\ calc.client \notin SingleShot) =>
        /\ calc.sent <= 3
        /\ Len(calc.waits) = Cardinality({k \in 1..calc.sent : calc.resp[k] = 429})
        /\ calc.out = "data" =>
              /\ ~RaisesForStatus(calc.resp[calc.sent])
              /\ All429(calc.sent - 1)
        /\ calc.out = "rate_limited" => (calc.sent = 3 /\ All429(3))
        /\ (calc.out = "run" /\ calc.sent = 3) => All429(3)

\* two 429 answers, then data on the third attempt
C11_Witness ==
    /\ calc.kind = "http" /\ calc.client = "match_br"
    /\ calc.out = "data" /\ calc.sent = 3

\* C12 as stated: with the retry loop, three 429 answers followed by a 200
\* do not fail the call, and the rate-limit failure is raised only after a
\* fourth consecutive 429.  Checked under SpecHttp.
C12_FourthAttempt ==
    (calc.kind = "http" /\ calc.client \notin SingleShot) =>
        /\ (All429(3) /\ calc.resp[4] = 200) => calc.out \in {"run", "data"}
        /\ calc.out = "rate_limited" => All429(4)

\* C13 as stated: in every script's catalog call, a 429 followed by a 200
\* does not fail the call and does not set the record to ERROR.  Checked
\* under SpecHttp.
C13_EveryCallRetries ==
    (calc.kind = "http" /\ calc.resp[1] = 429 /\ calc.resp[2] = 200) =>
        (calc.out \in {"run", "data"} /\ calc.record = "open")

\* the call has received an answer that is neither a success nor a 429
HardFailure(k) == calc.resp[k] # 429 /\ RaisesForStatus(calc.resp[k])

\* C14 as stated: once a call has received a non-2xx answer other than 429,
\* it has failed, that answer was its last request, and the exception sets
\* the record to ERROR (nothing else happens to the record).  Checked under
\* SpecHttp.
C14_FailAtOnce ==
    calc.kind = "http" =>
        \A k \in 1..calc.sent :
            HardFailure(k) =>
                /\ calc.sent = k
                /\ calc.out = "http_error"
                /\ calc.record \in {"open", "ERROR"}

RECURSIVE SumSeq(_)
SumSeq(sq) == IF sq = <<>> THEN 0 ELSE Head(sq) + SumSeq(Tail(sq))

\* C15: in half seconds, the wait after the k-th 429 of a call (k = 0, 1,
\* 2) is base + k seconds (3 + 2k half seconds), the waits of one call are
\* strictly increasing, and their sum is at most 3 * base + 3 seconds.
\* Checked under SpecHttp.
C15_LinearBackoff ==
    calc.kind = "http" =>
        /\ \A k \in 1..Len(calc.waits) : calc.waits[k] = BaseDelay + 2 * (k - 1)
        /\ \A k \in 1..(Len(calc.waits) - 1) : calc.waits[k] < calc.waits[k + 1]
        /\ SumSeq(calc.waits) <= 3 * BaseDelay + 6

\* a call that has waited three times
C15_Witness == calc.kind = "http" /\ Len(calc.waits) = 3

\* the first four characters of a release date
FirstFour(date) == SubSeq(date, 1, IF Len(date) < 4 THEN Len(date) ELSE 4)

\* the score as the specification defines it
SpecScoreOf(q, year, cand) ==
    (IF cand.title = q \/ cand.orig = q THEN 5
     ELSE IF Contains(q, cand.title) \/ Contains(cand.title, q)
             \/ Contains(q, cand.orig) \/ Contains(cand.orig, q) THEN 2
     ELSE 0)
    + (IF year # <<>> /\ FirstFour(cand.date) = year THEN 3 ELSE 0)

\* C16 as stated: the score computed for a query title, query year and
\* candidate is T + Y: T is 5 on an equal title or original title, else 2
\* on containment in either direction, else 0; Y is 3 when a year is given
\* and equals the first four characters of the release date.  Checked under
\* SpecScore.
C16_ScoreFormula ==
    (calc.kind = "score" /\ calc.out # -1) =>
        calc.out = SpecScoreOf(calc.q, calc.year, calc.cand)

\* the first ten results
Shown(cs) == 1..(IF Len(cs) < 10 THEN Len(cs) ELSE 10)

\* the earliest of the first ten results that has their greatest score
EarliestMax(cs) ==
    Min({k \in Shown(cs) : \A j \in Shown(cs) : cs[j].score <= cs[k].score})

\* C17: in the BR, seen and watchlist matchers the best candidate is the
\* earliest, in catalog order, of the first ten results that have the
\* greatest score, and the candidate written to the record is one of the
\* first ten results.  Checked under SpecRank.
C17_StableRanking ==
    (calc.kind = "rank" /\ calc.best # 0) =>
        /\ calc.best = EarliestMax(calc.cands)
        /\ calc.chosen \in Shown(calc.cands)

\* eleven results whose last one has the greatest score, alone: the best
\* is an earlier one
C17_Witness ==
    /\ calc.kind = "rank" /\ calc.best # 0
    /\ Len(calc.cands) = 11
    /\ calc.cands[11].score = 5
    /\ \A k \in 1..10 : calc.cands[k].score = 2

\* a decision has been taken for a record whose search succeeded
Decided == calc.kind = "decide" /\ calc.out.status # "none" /\ ~calc.searchFail

\* C18: when the search returns exactly one candidate, every match driver
\* writes MATCHED with that candidate's id, with or without a director
\* hint and whatever the score, and asks for no credits (so a failing
\* credits service changes nothing).  Checked under SpecDecide.
C18_SingleCandidate ==
    (Decided /\ Len(calc.cands) = 1) =>
        /\ calc.out.status = "MATCHED"
        /\ calc.out.setTmdb /\ calc.out.tmdb = calc.cands[1].id
        /\ ~calc.credits

\* a NAS record with a director hint and one search result, decided while
\* the credits service fails
C18_Witness ==
    /\ Decided /\ Len(calc.cands) = 1
    /\ calc.src = "NAS" /\ calc.hint /\ calc.creditsFail

\* the candidates with the score their driver ranks them by: the title and
\* year score, or for NAS (which scores the first five by their directors
\* only) 1 when a director equals the hint and 0 otherwise
RankedBy(s, hint, cands) ==
    IF s = "NAS"
    THEN [k \in 1..Len(FirstN(cands, 5)) |->
            [cands[k] EXCEPT !.score = IF hint /\ cands[k].dir = "hit" THEN 1 ELSE 0]]
    ELSE FirstN(cands, 10)

\* C19 as stated: with two or more candidates whose best score is strictly
\* greater than the next (all calls succeeding), every match driver writes
\* MATCHED with the best-scored candidate's id; AMBIGUOUS is written only
\* when the two best scores are equal.  Checked under SpecDecide.
C19_ClearWinner ==
    (Decided /\ ~calc.creditsFail /\ Len(calc.cands) >= 2) =>
        LET ranked == RankedBy(calc.src, calc.hint, calc.cands)
        IN  /\ ~TiedTop(ranked) =>
                  /\ calc.out.status = "MATCHED"
                  /\ calc.out.tmdb = SortDesc(ranked)[1].id
            /\ calc.out.status = "AMBIGUOUS" => TiedTop(ranked)

\* C20 as stated: with two or more candidates whose best scores are tied
\* and no director hint (all calls succeeding), the record is written
\* AMBIGUOUS, not MATCHED, and the note lists the candidates' ids.  Checked
\* under SpecDecide.
C20_TieWithoutHint ==
    (Decided /\ ~calc.creditsFail /\ ~calc.hint
        /\ TiedTop(RankedBy(calc.src, calc.hint, calc.cands))) =>
        /\ calc.out.status = "AMBIGUOUS"
        /\ calc.out.note = <<"candidates">>

\* the greatest score among the first ten results
TopScore(cs) == cs[EarliestMax(cs)].score

\* the results tied at the top: those of the first ten with the greatest
\* score; NAS computes no title score, so all its results are tied
TiedSet(s, cs) ==
    IF s = "NAS" THEN 1..Len(cs)
    ELSE {k \in Shown(cs) : cs[k].score = TopScore(cs)}

\* the tied candidates whose directors overlap the hint
TiedHits(s, cs) == {k \in TiedSet(s, cs) : cs[k].dir = "hit"}

\* C21 as stated: with two or more candidates tied at the top score and a
\* director hint overlapping the directors of exactly one of them, the
\* record is MATCHED with that candidate's id and at most 3 credits calls
\* were made, in every match driver.  Checked under SpecDisamb.
C21_DirectorBreaksTie ==
    (calc.kind = "disamb" /\ calc.calls # -1 /\ calc.hint
        /\ Cardinality(TiedSet(calc.src, calc.cands)) >= 2
        /\ Cardinality(TiedHits(calc.src, calc.cands)) = 1) =>
        /\ calc.out.status = "MATCHED"
        /\ calc.out.tmdb \in TiedHits(calc.src, calc.cands)
        /\ calc.calls <= 3

\* C22 as stated: in the drivers that score their results (BR, seen,
\* watchlist), a candidate picked by its directors has the top score of the
\* result set.  Checked under SpecDisamb.
C22_PickAmongTied ==
    (calc.kind = "disamb" /\ calc.calls # -1 /\ calc.src \in Scorers /\ calc.pick # 0) =>
        /\ calc.out.status = "MATCHED" /\ calc.out.tmdb = calc.pick
        /\ calc.cands[calc.pick].score = TopScore(calc.cands)

\* C23 as stated: in every match driver a record whose first search is
\* empty, and whose simplified title is a query of its own, is searched a
\* second time with it; a record whose simplified title finds a candidate
\* ends MATCHED or AMBIGUOUS; NOT_FOUND is written only when the raw title
\* and the simplified title both find nothing.  Checked under SpecSearch.
C23_FallbackSearch ==
    (calc.kind = "search" /\ calc.pc = "done") =>
        LET q2 == simplify_title(calc.raw)
        IN  /\ (calc.ans1 = <<>> /\ q2 # <<>> /\ q2 # calc.raw) => calc.queries = 2
            /\ (calc.ans1 = <<>> /\ calc.ans2 # <<>>) =>
                  calc.out.status \in {"MATCHED", "AMBIGUOUS"}
            /\ calc.out.status = "NOT_FOUND" => (calc.ans1 = <<>> /\ calc.ans2 = <<>>)

\* a step of the manual resolver that changes row i
ResolverChanges(i) ==
    /\ \E p \in Procs : proc[p].kind = "resolve"
    /\ rec'[i] # rec[i]

\* the row after a manual resolution: MATCHED with an id, or NOT_FOUND with
\* its tmdb_id untouched
Resolved(old, new) ==
    \/ new.status = "MATCHED" /\ new.tmdb \in Tmdb
    \/ new.status = "NOT_FOUND" /\ new.tmdb = old.tmdb

recordRows == <<film, filmSource, physCopy, nasAsset, userFilm, watchEvent>>

\* the rows of film t and of staging row i are the only ones a step changes
OnlyRowsOf(t, i) ==
    /\ \A u \in Tmdb \ {t} :
          /\ film'[u] = film[u] /\ physCopy'[u] = physCopy[u]
          /\ userFilm'[u] = userFilm[u]
          /\ \A s \in LinkedSources, live \in BOOLEAN :
                filmSource'[<<u, s, live>>] = filmSource[<<u, s, live>>]
    /\ \A j \in Recs \ {i} :
          nasAsset'[j] = nasAsset[j] /\ watchEvent'[j] = watchEvent[j]

\* C25: with the scripts run one at a time, every step that changes a
\* committed film, film_source, physical_copy, nas_asset, user_film or
\* watch_event row is the apply of a record that is MATCHED, has a tmdb_id
\* and carries no applied marker, and changes only the rows of that
\* record's film and of that record; so no PENDING, AMBIGUOUS, NOT_FOUND,
\* ERROR or APPLIED record causes a canonical write.
C25_WritesOnlyForMatched ==
    [][recordRows' # recordRows =>
          \E p \in Procs :
              /\ proc[p].kind = "apply" /\ proc[p].pc = "film"
              /\ ApplySelect(rec[proc[p].cur])
              /\ rec[proc[p].cur].src = proc[p].src
              /\ rec[proc[p].cur].tmdb = proc[p].curT
              /\ OnlyRowsOf(proc[p].curT, proc[p].cur)]_vars

\* a watchlist record applied (its film and user_film rows written) next
\* to a record left in ERROR with a tmdb_id for which no film row exists
C25_Witness ==
    \E i, j \in Recs :
        /\ rec[i].src = "WL" /\ Applied(i) /\ film[rec[i].tmdb] = 1
        /\ userFilm[rec[i].tmdb] = "WANT"
        /\ rec[j].status = "ERROR" /\ rec[j].tmdb # NoTmdb /\ film[rec[j].tmdb] = 0

\* film_source rows that link film t to the source of code s
Links(t, s) ==
    IF s \in LinkedSources
    THEN filmSource[<<t, s, TRUE>>] + filmSource[<<t, s, FALSE>>]
    ELSE 0

\* C26 as stated: a film has exactly one source-linkage row for each
\* source (BR, NAS, seen, watchlist) that has an applied record resolving
\* to it.
C26_OneLinkPerSource ==
    \A i \in Recs : Applied(i) => Links(rec[i].tmdb, rec[i].src) = 1

C28_NoteAppendOnly ==
    [][\A i \in Recs :
          (Present(rec[i]) /\ Present(rec'[i])) =>
              IsPrefix(rec[i].note, rec'[i].note)]_vars

\* a step of a match driver, an apply driver or the manual resolver (the
\* box-set replacer leaves no trace in proc)
DriverStep == proc' # proc

\* C29 as stated: once a record is APPLIED, no step of a match driver, an
\* apply driver or the manual resolver (default parameters) changes its
\* status, tmdb_id or note.  Checked under SpecConc.
C29_AppliedTerminal ==
    [][\A i \in Recs :
          (rec[i].status = "APPLIED" /\ DriverStep) => rec'[i] = rec[i]]_vars

\* process p takes a step of a match or apply run
AutomaticStep(p) ==
    /\ proc'[p] # proc[p]
    /\ proc[p].kind \in {"match", "apply"} \/ proc'[p].kind \in {"match", "apply"}

C31_PendingPulled ==
    \A i \in Recs :
        (Present(rec[i]) /\ rec[i].status = "PENDING")
            ~> (Present(rec[i]) /\ rec[i].status \in MatchResults)

\* C32: for an exception message of any length, the note stored by the
\* error handler of a match or apply driver has at most 1000 characters:
\* a fixed prefix of at most 7 characters followed by the first 900 (or
\* 1000) characters of the message, or the whole message when it is
\* shorter.  Checked under SpecErrNote.
C32_ErrorNoteBounded ==
    (calc.kind = "errnote" /\ calc.done) =>
        \E pre \in 0..7, cut \in {900, 1000} :
            LET kept == IF Len(calc.msg) < cut THEN Len(calc.msg) ELSE cut
            IN  /\ Len(calc.note) = pre + kept
                /\ Len(calc.note) <= 1000
                /\ \A k \in 1..kept : calc.note[pre + k] = calc.msg[k]

\* a message of more than 1000 characters stored by the NAS matcher
C32_Witness ==
    /\ calc.kind = "errnote" /\ calc.client = "match_nas" /\ calc.done
    /\ Len(calc.msg) > 1000 /\ Len(calc.note) = 1000

\* C33: title normalization is idempotent and yields a clean title: for every
\* title without a bracketed annotation, norm(norm(t)) = norm(t), and norm(t)
\* holds only lowercase letters, digits and single spaces, with no space at
\* either end.  Checked under SpecNorm.
CleanTitle(s) ==
    /\ \A k \in 1..Len(s) : s[k] \in {"a", "e'", "1", " "}
    /\ \A k \in 1..(Len(s) - 1) : ~(s[k] = " " /\ s[k + 1] = " ")
    /\ s # <<>> => (s[1] # " " /\ s[Len(s)] # " ")

C33_NormIdempotent ==
    (calc.kind = "norm" /\ calc.step = 2 /\ ~HasBrackets(calc.title)) =>
        /\ calc.twice = calc.once
        /\ CleanTitle(calc.once)

\* C34: simplify_title returns at most 5 keywords, none a stop word, taken in
\* order from the part of the title before the first colon or dash with the
\* bracketed text removed (the leading keywords of that part, none skipped);
\* and the simplified query is sent only after a primary query that returned
\* no candidate.  Checked under SpecSimplify.
TitlePart(raw) == BeforeSeparator(RemoveBrackets(raw))

KeywordPos(raw) ==
    {j \in 1..Len(TitlePart(raw)) :
        IsWord(TitlePart(raw)[j]) /\ TitlePart(raw)[j] \notin STOP}

LeadingKeywords(raw, q) ==
    /\ Len(q) <= 5
    /\ Len(q) = Min({5, Cardinality(KeywordPos(raw))})
    /\ \A k \in 1..Len(q) :
         /\ q[k] \notin STOP
         /\ \E j \in KeywordPos(raw) :
              /\ Cardinality({i \in KeywordPos(raw) : i <= j}) = k
              /\ q[k] = TitlePart(raw)[j]

C34_SimplifiedFallback ==
    (calc.kind = "simplify" /\ calc.pc # "primary") =>
        /\ ~calc.found1 => LeadingKeywords(calc.raw, calc.q2)
        /\ Len(calc.sent) <= 2
        /\ Len(calc.sent) = 2 => (~calc.found1 /\ calc.sent[2] = calc.q2)
        /\ calc.sent[1] = calc.raw

C34_Witness ==
    /\ calc.kind = "simplify" /\ calc.pc = "done"
    /\ Len(calc.sent) = 2
    /\ Cardinality(KeywordPos(calc.raw)) = 6
    /\ Len(calc.q2) = 5

\* C35: no eligible record is starved by the page limit: under repeated runs
\* of a driver that reads ORDER BY id LIMIT L, every record that satisfies
\* the driver's filter is eventually processed, also when L or more records
\* of lower id stay in the filter after being processed.  Checked under
\* SpecPages.
C35_NoStarvation ==
    \A i \in Recs :
        (Present(rec[i]) /\ MatchSelect(rec[i]))
            ~> (\E p \in Procs : proc[p].kind = "match" /\ proc[p].cur = i)

\* C36: a seen record with a watched date contributes exactly one watch_event
\* row: whatever the number of apply runs and however two concurrent apply
\* runs interleave, no staged row has more than one watch_event row.
\* Checked under SpecConc.
C36_OneWatchEvent ==
    \A i \in Recs : rec[i].src = "SEEN" => watchEvent[i] <= 1

\* C37: the format priority is preserved from import to apply: bracket tokens
\* with 4K or UHD give the format UHD; otherwise with BR, BD or Blu-ray,
\* BLURAY; otherwise with DVD, DVD; and a non-empty imported formats list
\* never gives a null format.  Checked under SpecFormat.
HasToken(tokens, spellings) == \E k \in 1..Len(tokens) : tokens[k] \in spellings

C37_FormatPriority ==
    (calc.kind = "format" /\ calc.step = 2) =>
        /\ HasToken(calc.tokens, {"4K", "UHD"}) => calc.primary = "UHD"
        /\ (~HasToken(calc.tokens, {"4K", "UHD"})
              /\ HasToken(calc.tokens, {"BR", "BD", "BLU-RAY"})) => calc.primary = "BLURAY"
        /\ (~HasToken(calc.tokens, {"4K", "UHD", "BR", "BD", "BLU-RAY"})
              /\ HasToken(calc.tokens, {"DVD", "dvd"})) => calc.primary = "DVD"
        /\ calc.formats # <<>> => calc.primary # NoFormat

\* C38: in the manual resolver an input that resolves nothing leaves the
\* record unchanged: on skip, empty input, a malformed 'id:' value, a
\* non-numeric choice, a number outside 1..(number of candidates shown) or
\* an id of 0, the record's match_status, tmdb_id and match_note are
\* unchanged and nothing is committed.  Checked under SpecPrompt.
ResolvesNothing(ty, cands) ==
    \/ ty.form \in {"s", "empty"}
    \/ ty.form \in {"id:", "plain"} /\ ~ty.numeric
    \/ ty.form = "plain" /\ ty.numeric /\ (ty.arg < 1 \/ ty.arg > Len(cands))
    \/ ty.form = "id:" /\ ty.numeric /\ ty.arg = 0

C38_NoChoiceNoChange ==
    (calc.kind = "prompt" /\ calc.step = 1 /\ ResolvesNothing(calc.typed, calc.cands)) =>
        /\ calc.row = calc.old
        /\ calc.commits = 0

C38_Witness ==
    /\ calc.kind = "prompt" /\ calc.step = 1
    /\ calc.typed.form = "plain" /\ calc.typed.numeric
    /\ calc.typed.arg = Len(calc.cands) + 1 /\ calc.cands # <<>>
    /\ calc.row = calc.old

\* C39: box-set replacement is all-or-nothing: with --dry-run, or when no
\* film is confirmed, import_br is left unchanged; otherwise one MATCHED row
\* with its tmdb_id is inserted per confirmed film and the box-set row is
\* deleted or marked replaced in the same transaction: no committed state has
\* the new film rows with the box-set row unmarked, or the reverse.
\* Checked under SpecBoxRun.
BoxUntouched == calc.rows = <<>> /\ calc.box = calc.box0

BoxReplaced ==
    /\ Len(calc.rows) = Len(calc.to_insert) /\ calc.rows # <<>>
    /\ \A k \in 1..Len(calc.rows) :
         /\ calc.rows[k].src = "BR" /\ calc.rows[k].status = "MATCHED"
         /\ calc.rows[k].tmdb = calc.to_insert[k] /\ calc.rows[k].tmdb # NoTmdb
    /\ IF calc.del THEN calc.box = DeletedRow
       ELSE calc.box.status = "REPLACED" /\ calc.box.tmdb = calc.box0.tmdb

C39_AllOrNothing ==
    calc.kind = "boxset" =>
        /\ BoxUntouched \/ BoxReplaced
        /\ (calc.dry \/ (calc.pc \notin {"preview", "decide"} /\ calc.to_insert = <<>>))
              => BoxUntouched
        /\ calc.exit = "ok" => BoxReplaced
        /\ calc.exit \in {"running", "none", "dry", "exc"} => BoxUntouched

C39_Witness ==
    /\ calc.kind = "boxset" /\ calc.exit = "ok"
    /\ Len(calc.to_insert) = 2 /\ Len(calc.ids) = 2
    /\ BoxReplaced

====
